---- MODULE Spec2Model ----
(***************************************************************************)
(* Model of SchwabReportsProcessor (src/schwab_reports.py): the three      *)
(* source tables, the split adjustment, the plan-account (EAC) lot-sale    *)
(* normalisation, the four category tables and the process_all pipeline.   *)
(*                                                                         *)
(* Representation.                                                         *)
(*   float      [t |-> "num", v |-> <<n, d>>]  the rational n/d in lowest  *)
(*              terms, d >= 0; <<0,0>> is NaN, <<1,0>> and <<-1,0>> are    *)
(*              +inf and -inf                                              *)
(*   string     [t |-> "str", v |-> <<"$", "1", ...>>]  its characters     *)
(*   date text  [t |-> "str", v |-> <<mm, dd, yyyy>>]   "MM/DD/YYYY"       *)
(*   blank      [t |-> "nan", v |-> <<>>]   an empty CSV cell of a text    *)
(*              column (float NaN in an object column)                     *)
(*   date       [t |-> "date", v |-> <<yyyy, mm, dd>>]  datetime.date      *)
(*   Timestamp  [t |-> "ts", v |-> <<yyyy, mm, dd>>];  NaT is [t |-> "nat"]*)
(*   DataFrame  [columns |-> <<names>>, rows |-> <<records>>]              *)
(***************************************************************************)
EXTENDS Integers, Sequences, FiniteSets, TLC

(***************************************************************************)
(* Bounds of the model.                                                    *)
(***************************************************************************)
MaxEacRows == 3
MaxIndRows == 2
MaxGainRows == 2
MaxDecimals == 4

\* calls of process_all after the first one
MaxRuns == 1

\* rows of a table handed to convert_amount_to_numeric directly, and calls
\* made on it
MaxCells == 2
MaxCalls == 2

(***************************************************************************)
(* Floats as rationals.                                                    *)
(***************************************************************************)
Abs(n) == IF n < 0 THEN -n ELSE n

Sign(n) == IF n < 0 THEN -1 ELSE IF n > 0 THEN 1 ELSE 0

RECURSIVE GCD(_, _)
GCD(a, b) == IF b = 0 THEN a ELSE GCD(b, a % b)

Norm(n, d) ==
    IF d = 0 THEN <<Sign(n), 0>>
    ELSE LET s == IF d < 0 THEN -1 ELSE 1
             g == GCD(Abs(n), Abs(d))
         IN  <<(s * n) \div g, (s * d) \div g>>

Num(n, d) == [t |-> "num", v |-> Norm(n, d)]

Flt(n) == Num(n, 1)

NaN == Num(0, 0)

IsNaN(x) == x.t = "num" /\ x.v = <<0, 0>>

Mul(a, b) == Num(a.v[1] * b.v[1], a.v[2] * b.v[2])

Div(a, b) ==
    LET s == IF b.v[1] < 0 THEN -1 ELSE 1
    IN  Num(s * a.v[1] * b.v[2], s * a.v[2] * b.v[1])

Neg(a) == Num(-a.v[1], a.v[2])

(***************************************************************************)
(* Strings as character sequences.                                         *)
(***************************************************************************)
Str(chars) == [t |-> "str", v |-> chars]

Blank == [t |-> "nan", v |-> <<>>]

Digits == <<"0", "1", "2", "3", "4", "5", "6", "7", "8", "9">>

IsDigit(c) == \E i \in 1..10 : Digits[i] = c

DigitVal(c) == (CHOOSE i \in 1..10 : Digits[i] = c) - 1

AllDigits(s) == \A i \in 1..Len(s) : IsDigit(s[i])

RECURSIVE DigitsVal(_)
DigitsVal(s) ==
    IF s = <<>> THEN 0
    ELSE DigitsVal(SubSeq(s, 1, Len(s) - 1)) * 10 + DigitVal(s[Len(s)])

RECURSIVE Pow10(_)
Pow10(k) == IF k = 0 THEN 1 ELSE 10 * Pow10(k - 1)

RECURSIVE NatToDigits(_)
NatToDigits(n) ==
    IF n < 10 THEN <<Digits[n + 1]>>
    ELSE NatToDigits(n \div 10) \o <<Digits[(n % 10) + 1]>>

RECURSIVE PadLeft(_, _)
PadLeft(s, k) == IF Len(s) >= k THEN s ELSE PadLeft(<<"0">> \o s, k)

Contains(s, c) == \E i \in 1..Len(s) : s[i] = c

\* str.replace(c, rep) with a literal one-character pattern
RECURSIVE Replace(_, _, _)
Replace(s, c, rep) ==
    IF s = <<>> THEN <<>>
    ELSE (IF Head(s) = c THEN rep ELSE <<Head(s)>>) \o Replace(Tail(s), c, rep)

RECURSIVE LStrip(_)
LStrip(s) == IF s # <<>> /\ Head(s) = " " THEN LStrip(Tail(s)) ELSE s

RECURSIVE RStrip(_)
RStrip(s) ==
    IF s # <<>> /\ s[Len(s)] = " " THEN RStrip(SubSeq(s, 1, Len(s) - 1)) ELSE s

Strip(s) == RStrip(LStrip(s))

\* fault variant: the float written without its fraction
FloatToStr_NoFraction(x) ==
    IF x.v[2] = 0
    THEN (IF x.v[1] = 0 THEN <<"n", "a", "n">>
          ELSE (IF x.v[1] < 0 THEN <<"-">> ELSE <<>>) \o <<"i", "n", "f">>)
    ELSE (IF x.v[1] < 0 THEN <<"-">> ELSE <<>>)
         \o NatToDigits(Abs(x.v[1]) \div x.v[2])

\* str(float): the repr of a double, e.g. 15000.0, -75.0, 1234.56, nan, inf
FloatToStr(x) ==
    LET n == x.v[1]
        d == x.v[2]
        sgn == IF n < 0 THEN <<"-">> ELSE <<>>
        ks == {k \in 0..MaxDecimals : Pow10(k) % d = 0}
        k == IF ks = {} THEN MaxDecimals
             ELSE CHOOSE j \in ks : \A i \in ks : j <= i
        frac == ((Abs(n) % d) * Pow10(k)) \div d
    IN  IF d = 0
        THEN (IF n = 0 THEN <<"n", "a", "n">> ELSE sgn \o <<"i", "n", "f">>)
        ELSE sgn \o NatToDigits(Abs(n) \div d) \o <<".">>
             \o (IF k = 0 THEN <<"0">> ELSE PadLeft(NatToDigits(frac), k))

\* Series.astype(str) on one cell
AsStr(x) ==
    IF x.t = "str" THEN x.v
    ELSE IF x.t = "nan" THEN <<"n", "a", "n">>
    ELSE FloatToStr(x)

\* float(s) for the grammar [sign] (digits [. digits] | . digits | nan | inf)
ParseUnsigned(s) ==
    LET dots == {i \in 1..Len(s) : s[i] = "."}
    IN  IF s = <<"n", "a", "n">> THEN [ok |-> TRUE, val |-> NaN]
        ELSE IF s = <<"i", "n", "f">> THEN [ok |-> TRUE, val |-> Num(1, 0)]
        ELSE IF Cardinality(dots) > 1 THEN [ok |-> FALSE, val |-> NaN]
        ELSE LET p == IF dots = {} THEN Len(s) + 1 ELSE CHOOSE i \in dots : TRUE
                 ip == SubSeq(s, 1, p - 1)
                 fp == SubSeq(s, p + 1, Len(s))
             IN  IF AllDigits(ip) /\ AllDigits(fp) /\ Len(ip) + Len(fp) > 0
                 THEN [ok |-> TRUE,
                       val |-> Num(DigitsVal(ip) * Pow10(Len(fp)) + DigitsVal(fp),
                                   Pow10(Len(fp)))]
                 ELSE [ok |-> FALSE, val |-> NaN]

NegParsed(r) == [ok |-> r.ok, val |-> Neg(r.val)]

ParseFloat(s) ==
    IF s # <<>> /\ Head(s) = "-"
    THEN NegParsed(ParseUnsigned(Tail(s)))
    ELSE IF s # <<>> /\ Head(s) = "+" THEN ParseUnsigned(Tail(s))
    ELSE ParseUnsigned(s)

(***************************************************************************)
(* Dates.                                                                  *)
(***************************************************************************)
DateStr(m, d, y) == [t |-> "str", v |-> <<m, d, y>>]

PyDate(y, m, d) == [t |-> "date", v |-> <<y, m, d>>]

NaT == [t |-> "nat", v |-> <<>>]

IsLeap(y) == (y % 4 = 0 /\ y % 100 # 0) \/ y % 400 = 0

DaysIn(m, y) ==
    IF m = 2 THEN (IF IsLeap(y) THEN 29 ELSE 28)
    ELSE IF m \in {4, 6, 9, 11} THEN 30 ELSE 31

\* pd.to_datetime(x, format="%m/%d/%Y") on one value
to_datetime(x) ==
    IF x.t = "str"
    THEN LET m == x.v[1]
             d == x.v[2]
             y == x.v[3]
         IN  IF m \in 1..12 /\ d >= 1 /\ d <= DaysIn(m, y)
             THEN [ok |-> TRUE, val |-> [t |-> "ts", v |-> <<y, m, d>>]]
             ELSE [ok |-> FALSE, val |-> NaT]
    ELSE IF x.t \in {"date", "ts"}
    THEN [ok |-> TRUE, val |-> [t |-> "ts", v |-> x.v]]
    ELSE [ok |-> TRUE, val |-> NaT]

\* a < b on (year, month, day)
DateLess(a, b) ==
    \/ a[1] < b[1]
    \/ a[1] = b[1] /\ a[2] < b[2]
    \/ a[1] = b[1] /\ a[2] = b[2] /\ a[3] < b[3]

\* fault variant: a text that is no date let through as it stands
to_date_Unchecked(x) ==
    LET r == to_datetime(x)
    IN  IF x.t = "str"
        THEN [ok |-> TRUE,
              val |-> [t |-> "date", v |-> <<x.v[3], x.v[1], x.v[2]>>]]
        ELSE IF r.ok /\ r.val.t = "ts"
        THEN [ok |-> TRUE, val |-> [t |-> "date", v |-> r.val.v]]
        ELSE [ok |-> FALSE, val |-> NaT]

\* pd.to_datetime(x, format="%m/%d/%Y").date(); NaT.date() raises ValueError
to_date(x) ==
    LET r == to_datetime(x)
    IN  IF r.ok /\ r.val.t = "ts"
        THEN [ok |-> TRUE, val |-> [t |-> "date", v |-> r.val.v]]
        ELSE [ok |-> FALSE, val |-> NaT]

(***************************************************************************)
(* Configuration: the first configured stock split.                        *)
(***************************************************************************)
SplitDate == <<2024, 6, 7>>

SplitRatio == 10

get_stock_split_info == [date |-> SplitDate, ratio |-> SplitRatio]

(***************************************************************************)
(* DataFrames.                                                             *)
(***************************************************************************)
None == [none |-> TRUE]

DataFrame(cols, rows) == [columns |-> cols, rows |-> rows]

HasCol(df, c) == \E i \in 1..Len(df.columns) : df.columns[i] = c

ColSet(cols) == {cols[i] : i \in 1..Len(cols)}

IsEmpty(df) == Len(df.rows) = 0 \/ Len(df.columns) = 0

\* df[mask]
RECURSIVE SelectSeq2(_, _)
SelectSeq2(rows, keep) ==
    IF rows = <<>> THEN <<>>
    ELSE (IF keep[1] THEN <<Head(rows)>> ELSE <<>>)
         \o SelectSeq2(Tail(rows), Tail(keep))

Filter(df, Test(_)) ==
    DataFrame(df.columns,
              SelectSeq2(df.rows, [i \in 1..Len(df.rows) |-> Test(df.rows[i])]))

\* fault variant: the selection of the columns left out
Project_Unselected(df, cols) == [err |-> "", df |-> df]

\* df[[c1, ..., ck]]; a name that is not a column raises KeyError
Project(df, cols) ==
    IF \A i \in 1..Len(cols) : HasCol(df, cols[i])
    THEN [err |-> "",
          df |-> DataFrame(cols, [i \in 1..Len(df.rows) |->
                                   [c \in ColSet(cols) |-> df.rows[i][c]]])]
    ELSE [err |-> "KeyError", df |-> df]

\* df.at[i, c] = x; a new column c is created, NaN in the other rows
SetAt(df, i, c, x) ==
    IF HasCol(df, c)
    THEN DataFrame(df.columns, [df.rows EXCEPT ![i] = [@ EXCEPT ![c] = x]])
    ELSE DataFrame(Append(df.columns, c),
                   [j \in 1..Len(df.rows) |->
                     [k \in ColSet(df.columns) \cup {c} |->
                       IF k = c THEN (IF j = i THEN x ELSE NaN)
                       ELSE df.rows[j][k]]])

(***************************************************************************)
(* convert_amount_to_numeric: the column as text, "$" and "," removed,     *)
(* "(" turned into "-" and ")" removed, stripped and parsed as float.      *)
(* Each replacement is made on the whole column when any cell has the      *)
(* character.  A cell that does not parse raises ValueError; the column    *)
(* then keeps the text assigned by the last replacement.                   *)
(***************************************************************************)
SetColumn(df, c, col) ==
    DataFrame(df.columns,
              [i \in 1..Len(df.rows) |-> [df.rows[i] EXCEPT ![c] = col[i]]])

AnyContains(col, c) == \E i \in 1..Len(col) : Contains(col[i], c)

\* Series.str.replace(c, by, regex=False)
ReplaceAll(col, c, by) == [i \in 1..Len(col) |-> Replace(col[i], c, by)]

ReplaceIfAny(col, c, by) ==
    IF AnyContains(col, c) THEN ReplaceAll(col, c, by) ELSE col

\* fault variant: the parentheses dropped with no sign put in
ReplaceParens_NoSign(col) ==
    IF AnyContains(col, "(")
    THEN ReplaceAll(ReplaceAll(col, "(", <<>>), ")", <<>>)
    ELSE col

ReplaceParens(col) ==
    IF AnyContains(col, "(")
    THEN ReplaceAll(ReplaceAll(col, "(", <<"-">>), ")", <<>>)
    ELSE col

\* the column as text after the replacements of lines 398-406
CleanedText(col) ==
    ReplaceParens(ReplaceIfAny(ReplaceIfAny(col, "$", <<>>), ",", <<>>))


\* Series.str.strip().astype(float) on the cleaned text
AsFloatColumn(table, field_name, text, p) ==
    IF \A i \in 1..Len(p) : p[i].ok
    THEN [err |-> "",
          df |-> SetColumn(table, field_name, [i \in 1..Len(p) |-> p[i].val])]
    ELSE [err |-> "ValueError",
          df |-> SetColumn(table, field_name,
                           [i \in 1..Len(text) |-> Str(text[i])])]

ParsedColumn(table, field_name, text) ==
    AsFloatColumn(table, field_name, text,
                  [i \in 1..Len(text) |-> ParseFloat(Strip(text[i]))])

convert_amount_to_numeric(table, field_name) ==
    IF ~HasCol(table, field_name) THEN [err |-> "KeyError", df |-> table]
    ELSE ParsedColumn(table, field_name,
             CleanedText([i \in 1..Len(table.rows) |->
                            AsStr(table.rows[i][field_name])]))

(***************************************************************************)
(* fixup_stock_splits: Quantity times the ratio in the rows dated strictly *)
(* before the split.  A date that does not parse raises ValueError and     *)
(* leaves the rows before it adjusted.                                     *)
(***************************************************************************)
\* fault variant: the day of the split counts as before it
IsBeforeSplit_Inclusive(d) == ~DateLess(get_stock_split_info.date, d)

IsBeforeSplit(d) == DateLess(d, get_stock_split_info.date)

RECURSIVE fixup_rows(_, _, _)
fixup_rows(df, date_column, i) ==
    IF i > Len(df.rows) THEN [err |-> "", df |-> df]
    ELSE IF ~HasCol(df, date_column) THEN [err |-> "KeyError", df |-> df]
    ELSE LET row == df.rows[i]
             r == to_date(row[date_column])
         IN  IF ~r.ok THEN [err |-> "ValueError", df |-> df]
             ELSE IF IsBeforeSplit(r.val.v) /\ HasCol(df, "Quantity")
             THEN fixup_rows(SetAt(df, i, "Quantity",
                                   Mul(row["Quantity"],
                                       Flt(get_stock_split_info.ratio))),
                             date_column, i + 1)
             ELSE fixup_rows(df, date_column, i + 1)

\* fault variant: the adjustment made twice
fixup_stock_splits_Twice(df, date_column) ==
    LET r == fixup_rows(df, date_column, 1)
    IN  IF r.err # "" THEN r ELSE fixup_rows(r.df, date_column, 1)

\* fault variant: the Quantity column taken for granted
fixup_stock_splits_NeedsQuantity(df, date_column) ==
    IF ~HasCol(df, "Quantity") THEN [err |-> "KeyError", df |-> df]
    ELSE fixup_rows(df, date_column, 1)

fixup_stock_splits(df, date_column) == fixup_rows(df, date_column, 1)

(***************************************************************************)
(* normalize_eac_df: the numeric columns converted, then one pass over the *)
(* rows in source order.  A "Sale" row sets row_date, row_symbol and       *)
(* row_sale_fmv; a row with a blank Date that is not a "Sale" row becomes  *)
(* a "Lot Sale" row carrying them.  The three locals are unbound until the *)
(* first "Sale" row: a blank-date row before it is relabelled and then     *)
(* raises UnboundLocalError.                                               *)
(***************************************************************************)
EacNumericColumns ==
    <<"Amount", "Shares", "Quantity", "PurchaseFairMarketValue",
      "VestFairMarketValue">>

RECURSIVE convert_columns(_, _, _)
convert_columns(df, cols, i) ==
    IF i > Len(cols) THEN [err |-> "", df |-> df]
    ELSE LET r == convert_amount_to_numeric(df, cols[i])
         IN  IF r.err # "" THEN r ELSE convert_columns(r.df, cols, i + 1)

\* fault variant: the three locals preset before the loop
Unbound_Preset ==
    [bound |-> TRUE, row_date |-> [t |-> "date", v |-> <<1, 1, 1>>],
     row_symbol |-> "", row_sale_fmv |-> NaN]

Unbound == [bound |-> FALSE, row_date |-> NaT, row_symbol |-> "",
            row_sale_fmv |-> NaN]

IsSaleRow(row) == row["Action"] = "Sale"

\* fault variant: only an empty text counts as a blank Date, a missing cell
\* does not
IsBlankDate_EmptyText(row) == row["Date"].t = "str" /\ row["Date"].v = <<>>

IsBlankDate(row) ==
    row["Date"].t = "nan" \/ (row["Date"].t = "str" /\ row["Date"].v = <<>>)

\* fault variant: the price per share from the split-adjusted Quantity
SaleFmv_Adjusted(row) ==
    Div(row["Amount"],
        IF DateLess(to_date(row["Date"]).val.v, get_stock_split_info.date)
        THEN Mul(row["Quantity"], Flt(get_stock_split_info.ratio))
        ELSE row["Quantity"])

\* row["Amount"] / row["Quantity"]; every "Sale" row of the source files
\* below has a positive Quantity
SaleFmv(row) == Div(row["Amount"], row["Quantity"])

LotAmount(row_sale_fmv, row) == Mul(row_sale_fmv, row["Shares"])

\* fault variant: PurchaseFairMarketValue whatever the Type
LotFmv_IgnoreType(row) == row["PurchaseFairMarketValue"]

LotFmv(row) ==
    IF row["Type"] = "RS" THEN row["VestFairMarketValue"]
    ELSE row["PurchaseFairMarketValue"]

\* fault variant: the row's Quantity in place of its Shares
LotCostBasis_RowQuantity(row, row_date) ==
    LET cb == Mul(LotFmv(row), row["Quantity"])
    IN  IF IsBeforeSplit(row_date.v)
        THEN Mul(cb, Flt(get_stock_split_info.ratio)) ELSE cb

\* fault variant: the split test made on the lot's own acquisition date
LotCostBasis_LotDate(row, row_date) ==
    LET cb == Mul(LotFmv(row), row["Shares"])
        d == IF row["Type"] = "RS" THEN row["VestDate"]
             ELSE row["PurchaseDate"]
    IN  IF d.t = "str" /\ IsBeforeSplit(<<d.v[3], d.v[1], d.v[2]>>)
        THEN Mul(cb, Flt(get_stock_split_info.ratio)) ELSE cb

LotCostBasis(row, row_date) ==
    LET cb == Mul(LotFmv(row), row["Shares"])
    IN  IF IsBeforeSplit(row_date.v)
        THEN Mul(cb, Flt(get_stock_split_info.ratio)) ELSE cb

\* fault variant: PurchaseDate whatever the Type
LotPurchaseDate_IgnoreType(row) == row["PurchaseDate"]

LotPurchaseDate(row) ==
    IF row["Type"] = "RS" THEN row["VestDate"] ELSE row["PurchaseDate"]

\* fault variant: the locals set by the first "Sale" row only
OpenSale_FirstOnly(st, row, date) ==
    IF st.bound THEN st
    ELSE [bound |-> TRUE, row_date |-> date, row_symbol |-> row["Symbol"],
          row_sale_fmv |-> SaleFmv(row)]

\* a "Sale" row sets row_date, row_symbol and row_sale_fmv
OpenSale(st, row, date) ==
    [bound |-> TRUE, row_date |-> date, row_symbol |-> row["Symbol"],
     row_sale_fmv |-> SaleFmv(row)]

\* fault variant: a dated row of another Action closes the open sale
SkipDated_Closed(st, row) == Unbound

\* a dated row that is no "Sale" row matches neither branch: the locals stay
SkipDated(st, row) == st

RelabelLot(df, i, st) ==
    LET row == df.rows[i]
        d1 == SetAt(df, i, "Date", st.row_date)
        d2 == SetAt(d1, i, "Symbol", st.row_symbol)
        d3 == SetAt(d2, i, "Amount", LotAmount(st.row_sale_fmv, row))
        d4 == SetAt(d3, i, "Quantity", row["Shares"])
        d5 == SetAt(d4, i, "Cost Basis", LotCostBasis(row, st.row_date))
    IN  SetAt(d5, i, "PurchaseDate", LotPurchaseDate(row))

RECURSIVE normalize_rows(_, _, _)
normalize_rows(df, i, st) ==
    IF i > Len(df.rows) THEN [err |-> "", df |-> df]
    ELSE LET row == df.rows[i]
         IN  IF IsSaleRow(row)
             THEN LET r == to_date(row["Date"])
                  IN  IF ~r.ok THEN [err |-> "ValueError", df |-> df]
                      ELSE normalize_rows(df, i + 1, OpenSale(st, row, r.val))
             ELSE IF IsBlankDate(row)
             THEN LET d0 == SetAt(df, i, "Action", "Lot Sale")
                  IN  IF ~st.bound
                      THEN [err |-> "UnboundLocalError", df |-> d0]
                      ELSE normalize_rows(RelabelLot(d0, i, st), i + 1, st)
             ELSE normalize_rows(df, i + 1, SkipDated(st, row))

normalize_eac_df(df) ==
    LET c == convert_columns(df, EacNumericColumns, 1)
    IN  IF c.err # "" THEN c ELSE normalize_rows(c.df, 1, Unbound)

(***************************************************************************)
(* Table building blocks: pd.concat, the Date column to datetime, and      *)
(* sort_values(by="Date").                                                 *)
(***************************************************************************)
RECURSIVE NewColumns(_, _)
NewColumns(cols, have) ==
    IF cols = <<>> THEN <<>>
    ELSE (IF Head(cols) \in have THEN <<>> ELSE <<Head(cols)>>)
         \o NewColumns(Tail(cols), have)

\* pd.concat([a, b], ignore_index=True); a None operand is dropped
Concat(a, b) ==
    IF a = None THEN b
    ELSE IF b = None THEN a
    ELSE LET cols == a.columns \o NewColumns(b.columns, ColSet(a.columns))
             Widen(df, row) ==
                 [c \in ColSet(cols) |-> IF HasCol(df, c) THEN row[c] ELSE NaN]
         IN  DataFrame(cols,
                 [i \in 1..Len(a.rows) |-> Widen(a, a.rows[i])]
                 \o [i \in 1..Len(b.rows) |-> Widen(b, b.rows[i])])

\* df["Date"] = pd.to_datetime(df["Date"], format="%m/%d/%Y")
DateToDatetime(df) ==
    LET n == Len(df.rows)
        p == [i \in 1..n |-> to_datetime(df.rows[i]["Date"])]
    IN  IF ~HasCol(df, "Date") THEN [err |-> "KeyError", df |-> df]
        ELSE IF \A i \in 1..n : p[i].ok
        THEN [err |-> "", df |-> SetColumn(df, "Date", [i \in 1..n |-> p[i].val])]
        ELSE [err |-> "ValueError", df |-> df]

\* a sorts at or before b: Timestamps by (year, month, day), NaT last
DateLE(a, b) ==
    IF b.t = "nat" THEN TRUE
    ELSE IF a.t = "nat" THEN FALSE
    ELSE ~DateLess(b.v, a.v)

RECURSIVE InsertByDate(_, _)
InsertByDate(sorted, row) ==
    IF sorted = <<>> THEN <<row>>
    ELSE IF DateLE(Head(sorted)["Date"], row["Date"])
    THEN <<Head(sorted)>> \o InsertByDate(Tail(sorted), row)
    ELSE <<row>> \o sorted

RECURSIVE SortRows(_, _)
SortRows(rows, acc) ==
    IF rows = <<>> THEN acc
    ELSE SortRows(Tail(rows), InsertByDate(acc, Head(rows)))

\* fault variant: the rows left in the order of the concatenation
sort_values_Unsorted(df) == df

sort_values(df) == DataFrame(df.columns, SortRows(df.rows, <<>>))

DatedAndSorted(df) ==
    LET r == DateToDatetime(df)
    IN  IF r.err # "" THEN r ELSE [err |-> "", df |-> sort_values(r.df)]

(***************************************************************************)
(* The category tables.  Each operator gives the table the method leaves   *)
(* in the processor's field and the exception it raises, "" for none.      *)
(***************************************************************************)
DividendColumns == <<"Date", "Action", "Symbol", "Amount">>

InterestColumns == <<"Date", "Action", "Amount">>

TaxDeductedColumns == <<"Date", "Symbol", "Amount">>

SaleColumns ==
    <<"Date", "Symbol", "Quantity", "Amount", "Cost Basis", "PurchaseDate">>

dividend_actions == {"Reinvest Dividend", "Qual Div Reinvest"}

tax_deducted_actions == {"NRA Tax Adj"}

\* fault variant: only the first of the two dividend actions taken
IsIndividualDividend_FirstOnly(row) == row["Action"] = "Reinvest Dividend"

IsIndividualDividend(row) == row["Action"] \in dividend_actions

IsEacDividend(row) == row["Action"] = "Dividend"

IsInterest(row) == row["Action"] = "Credit Interest"

IsIndividualTax(row) == row["Action"] \in tax_deducted_actions

\* fault variant: the plan-account dividends taken as well
IsEacTax_OrDividend(row) == row["Action"] \in {"Tax Withholding", "Dividend"}

IsEacTax(row) == row["Action"] = "Tax Withholding"

\* fault variant: the "Sale" header rows taken as well
IsLotSale_OrSale(row) == row["Action"] \in {"Lot Sale", "Sale"}

IsLotSale(row) == row["Action"] = "Lot Sale"

\* fault variant: a table that is still None stays None
EmptyIfNone_Missing(table, columns) == table

\* "If still None, create empty DataFrame"
EmptyIfNone(table, columns) ==
    IF table = None THEN DataFrame(columns, <<>>) ELSE table

populate_dividend_table(ind, eac) ==
    LET t0 == IF ind # None THEN Filter(ind, IsIndividualDividend)
              ELSE DataFrame(DividendColumns, <<>>)
        t1 == Project(t0, DividendColumns)
        e1 == Project(Filter(eac, IsEacDividend), DividendColumns)
        t2 == IF eac # None /\ ~IsEmpty(e1.df) THEN Concat(t1.df, e1.df)
              ELSE t1.df
    IN  IF t1.err # "" THEN [err |-> t1.err, df |-> t0]
        ELSE IF eac # None /\ e1.err # "" THEN [err |-> e1.err, df |-> t1.df]
        ELSE DatedAndSorted(t2)

populate_interest_table(ind) ==
    LET t0 == IF ind # None THEN Filter(ind, IsInterest)
              ELSE DataFrame(InterestColumns, <<>>)
        t1 == Project(t0, InterestColumns)
    IN  IF t1.err # "" THEN [err |-> t1.err, df |-> t0]
        ELSE DatedAndSorted(t1.df)

populate_tax_deducted_table(ind, eac) ==
    LET i0 == Filter(ind, IsIndividualTax)
        i1 == Project(i0, TaxDeductedColumns)
        t1 == IF ind # None THEN i1.df ELSE None
        e1 == Project(Filter(eac, IsEacTax), TaxDeductedColumns)
        t2 == IF eac # None /\ ~IsEmpty(e1.df) THEN Concat(t1, e1.df) ELSE t1
        t3 == EmptyIfNone(t2, TaxDeductedColumns)
    IN  IF ind # None /\ i1.err # "" THEN [err |-> i1.err, df |-> i0]
        ELSE IF eac # None /\ e1.err # "" THEN [err |-> e1.err, df |-> t1]
        ELSE IF t3 = None THEN [err |-> "AttributeError", df |-> t3]
        ELSE IF IsEmpty(t3) THEN [err |-> "", df |-> t3]
        ELSE DatedAndSorted(t3)

populate_eac_sale_table(eac, old) ==
    LET e1 == Project(Filter(eac, IsLotSale), SaleColumns)
        e2 == DateToDatetime(e1.df)
    IN  IF eac = None THEN [err |-> "", df |-> old]
        ELSE IF e1.err # "" THEN [err |-> e1.err, df |-> old]
        ELSE IF IsEmpty(e1.df) THEN [err |-> "", df |-> old]
        ELSE IF e2.err # "" THEN [err |-> e2.err, df |-> old]
        ELSE [err |-> "", df |-> Concat(old, e2.df)]

GainsColumns ==
    <<"Closed Date", "Symbol", "Quantity", "Proceeds", "Cost Basis (CB)",
      "Opened Date">>

Renamed(c) ==
    CASE c = "Closed Date" -> "Date"
      [] c = "Proceeds" -> "Amount"
      [] c = "Cost Basis (CB)" -> "Cost Basis"
      [] c = "Opened Date" -> "PurchaseDate"
      [] OTHER -> c

populate_individual_sale_table(gains) ==
    LET g == Project(gains, GainsColumns)
        Old(c) == CHOOSE k \in ColSet(GainsColumns) : Renamed(k) = c
    IN  IF g.err # "" THEN g
        ELSE [err |-> "",
              df |-> DataFrame([i \in 1..Len(GainsColumns) |->
                                 Renamed(GainsColumns[i])],
                               [i \in 1..Len(g.df.rows) |->
                                 [c \in ColSet(SaleColumns) |->
                                   g.df.rows[i][Old(c)]]])]

populate_sale_table(eac, gains, old) ==
    LET s1 == populate_eac_sale_table(eac, old)
        g1 == populate_individual_sale_table(gains)
        s2 == IF gains # None /\ ~IsEmpty(g1.df) THEN Concat(s1.df, g1.df)
              ELSE s1.df
        s3 == EmptyIfNone(s2, SaleColumns)
    IN  IF s1.err # "" THEN s1
        ELSE IF gains # None /\ g1.err # "" THEN [err |-> g1.err, df |-> s1.df]
        ELSE IF s3 = None THEN [err |-> "AttributeError", df |-> s3]
        ELSE IF IsEmpty(s3) THEN [err |-> "", df |-> s3]
        ELSE DatedAndSorted(s3)

\* one table of cleanup_all_tables
cleanup_table(table, cols) ==
    IF table = None \/ IsEmpty(table) THEN [err |-> "", df |-> table]
    ELSE convert_columns(table, cols, 1)

(***************************************************************************)
(* The source files.  Each is absent (None) or a table of at most Max...   *)
(* rows drawn from the row shapes below; the values are those of the       *)
(* fixtures of src/tests/conftest.py and of the examples of the            *)
(* documentation.                                                          *)
(***************************************************************************)
EacColumns ==
    <<"Date", "Action", "Symbol", "Quantity", "Amount", "Shares", "Type",
      "VestFairMarketValue", "PurchaseFairMarketValue", "VestDate",
      "PurchaseDate">>

EacRow(date, action, symbol, quantity, amount) ==
    [Date |-> date, Action |-> action, Symbol |-> symbol,
     Quantity |-> quantity, Amount |-> amount, Shares |-> NaN, Type |-> "",
     VestFairMarketValue |-> Blank, PurchaseFairMarketValue |-> Blank,
     VestDate |-> Blank, PurchaseDate |-> Blank]

\* "$15,000.00", "$5,000.00", "$500.00", "($75.00)", "$100.00", "$80.00",
\* "$7,500.00"
Usd15000 == Str(<<"$", "1", "5", ",", "0", "0", "0", ".", "0", "0">>)

Usd5000 == Str(<<"$", "5", ",", "0", "0", "0", ".", "0", "0">>)

Usd500 == Str(<<"$", "5", "0", "0", ".", "0", "0">>)

UsdMinus75 == Str(<<"(", "$", "7", "5", ".", "0", "0", ")">>)

Usd100 == Str(<<"$", "1", "0", "0", ".", "0", "0">>)

Usd80 == Str(<<"$", "8", "0", ".", "0", "0">>)

Usd7500 == Str(<<"$", "7", ",", "5", "0", "0", ".", "0", "0">>)

\* a sale after the split and a sale before it
SaleAfter == EacRow(DateStr(6, 15, 2024), "Sale", "AAPL", Flt(100), Usd15000)

SaleBefore == EacRow(DateStr(6, 6, 2024), "Sale", "MSFT", Flt(20), Usd5000)

\* a restricted-stock lot and a purchase-plan lot
LotRS ==
    [EacRow(Blank, "", "", NaN, Blank) EXCEPT
        !["Shares"] = Flt(50), !["Type"] = "RS",
        !["VestFairMarketValue"] = Usd100,
        !["PurchaseFairMarketValue"] = Usd80,
        !["VestDate"] = DateStr(1, 1, 2024),
        !["PurchaseDate"] = DateStr(1, 1, 2023)]

LotESPP ==
    [EacRow(Blank, "", "", Flt(30), Blank) EXCEPT
        !["Shares"] = Flt(30), !["Type"] = "ESPP",
        !["PurchaseFairMarketValue"] = Usd80,
        !["PurchaseDate"] = DateStr(3, 1, 2023)]

EacDividend == EacRow(DateStr(5, 1, 2024), "Dividend", "AAPL", NaN, Usd500)

EacTax ==
    EacRow(DateStr(5, 2, 2024), "Tax Withholding", "AAPL", NaN, UsdMinus75)

EacTaxBlank == EacRow(Blank, "Tax Withholding", "AAPL", NaN, UsdMinus75)

EacRows ==
    {SaleAfter, SaleBefore, LotRS, LotESPP, EacDividend, EacTax, EacTaxBlank}

IndividualColumns == <<"Date", "Action", "Symbol", "Quantity", "Amount">>

IndRow(date, action, symbol, quantity, amount) ==
    [Date |-> date, Action |-> action, Symbol |-> symbol,
     Quantity |-> quantity, Amount |-> amount]

\* "$250.00", "$15.50", "($37.50)", "$900.00"
Usd250 == Str(<<"$", "2", "5", "0", ".", "0", "0">>)

Usd15_50 == Str(<<"$", "1", "5", ".", "5", "0">>)

UsdMinus37_50 == Str(<<"(", "$", "3", "7", ".", "5", "0", ")">>)

Usd900 == Str(<<"$", "9", "0", "0", ".", "0", "0">>)

\* "n/a", an amount that is no number
NotAvailable == Str(<<"n", "/", "a">>)

\* "25/05/2024", a day-first date, which "%m/%d/%Y" does not read
DayFirst == DateStr(25, 5, 2024)

IndividualRows ==
    {IndRow(DateStr(6, 15, 2024), "Reinvest Dividend", "AAPL", NaN, Usd250),
     IndRow(DateStr(6, 20, 2024), "Qual Div Reinvest", "MSFT", NaN, Usd250),
     IndRow(DateStr(5, 1, 2024), "Credit Interest", "", NaN, Usd15_50),
     IndRow(DateStr(4, 15, 2024), "NRA Tax Adj", "AAPL", NaN, UsdMinus37_50),
     IndRow(DateStr(5, 15, 2024), "Reinvest Shares", "AAPL", Flt(2), Usd250),
     IndRow(DateStr(5, 20, 2024), "Sell", "AAPL", Flt(5), Usd900),
     IndRow(DateStr(5, 25, 2024), "Credit Interest", "", NaN, NotAvailable),
     IndRow(DayFirst, "Credit Interest", "", NaN, Usd15_50)}

GainRow(closed, symbol, quantity, proceeds, cb, opened) ==
    [c \in ColSet(GainsColumns) |->
        CASE c = "Closed Date" -> closed
          [] c = "Symbol" -> symbol
          [] c = "Quantity" -> quantity
          [] c = "Proceeds" -> proceeds
          [] c = "Cost Basis (CB)" -> cb
          [] OTHER -> opened]

\* "$4,250.00", "$3,750.00", "$18,750.00"
Usd4250 == Str(<<"$", "4", ",", "2", "5", "0", ".", "0", "0">>)

Usd3750 == Str(<<"$", "3", ",", "7", "5", "0", ".", "0", "0">>)

Usd18750 == Str(<<"$", "1", "8", ",", "7", "5", "0", ".", "0", "0">>)

\* closed the day before the split, on the day of the split, the day after
GainRows ==
    {GainRow(DateStr(6, 6, 2024), "GOOG", Flt(10), Usd4250, Usd3750,
             DateStr(1, 15, 2024)),
     GainRow(DateStr(6, 7, 2024), "GOOG", Flt(10), Usd4250, Usd3750,
             DateStr(2, 1, 2024)),
     GainRow(DateStr(6, 8, 2024), "GOOG", Flt(10), Usd18750, Usd15000,
             DateStr(2, 1, 2024))}

SeqsUpTo(S, n) == UNION {[1..k -> S] : k \in 0..n}

Tables(cols, S, n) == {DataFrame(cols, rows) : rows \in SeqsUpTo(S, n)}

EacFiles == {None} \cup Tables(EacColumns, EacRows, MaxEacRows)

IndividualFiles ==
    {None} \cup Tables(IndividualColumns, IndividualRows, MaxIndRows)

GainsFiles == {None} \cup Tables(GainsColumns, GainRows, MaxGainRows)

\* the three sample files of src/tests/conftest.py
SampleEac ==
    DataFrame(EacColumns,
        <<SaleAfter,
          EacDividend,
          [LotRS EXCEPT !["Action"] = "Lot Sale", !["Symbol"] = "AAPL",
                        !["Quantity"] = Flt(50), !["Amount"] = Usd7500],
          EacTaxBlank>>)

SampleIndividual ==
    DataFrame(<<"Date", "Action", "Symbol", "Amount", "Description">>,
        <<[Date |-> DateStr(6, 15, 2024), Action |-> "Reinvest Dividend",
           Symbol |-> "AAPL", Amount |-> Usd250,
           Description |-> "Dividend reinvestment"],
          [Date |-> DateStr(5, 1, 2024), Action |-> "Credit Interest",
           Symbol |-> "", Amount |-> Usd15_50,
           Description |-> "Interest payment"],
          [Date |-> DateStr(4, 15, 2024), Action |-> "NRA Tax Adj",
           Symbol |-> "AAPL", Amount |-> UsdMinus37_50,
           Description |-> "Tax adjustment"]>>)

SampleGains ==
    DataFrame(GainsColumns,
        <<GainRow(DateStr(6, 20, 2024), "AAPL", Flt(25), Usd4250, Usd3750,
                  DateStr(1, 15, 2024)),
          GainRow(DateStr(5, 15, 2024), "MSFT", Flt(50), Usd18750, Usd15000,
                  DateStr(2, 1, 2024))>>)

\* each file varies over its tables while the other two are absent or the
\* sample file
Inputs ==
    [eac_transactions : EacFiles,
     individual_transactions : {None, SampleIndividual},
     individual_realized_gains : {None, SampleGains}]
    \cup
    [eac_transactions : {None, SampleEac},
     individual_transactions : IndividualFiles,
     individual_realized_gains : {None, SampleGains}]
    \cup
    [eac_transactions : {None, SampleEac},
     individual_transactions : {None, SampleIndividual},
     individual_realized_gains : GainsFiles]

(***************************************************************************)
(* The processor.                                                          *)
(***************************************************************************)
VARIABLES files, eac_df, individual_df, individual_sales_df, dividend_table,
          interest_table, tax_deducted_table, sale_table, pc, err, written,
          runs, call

sources == <<eac_df, individual_df, individual_sales_df>>

tables == <<dividend_table, interest_table, tax_deducted_table, sale_table>>

vars == <<files, eac_df, individual_df, individual_sales_df, dividend_table,
          interest_table, tax_deducted_table, sale_table, pc, err, written,
          runs, call>>

ReportFiles ==
    {"dividend_transactions.csv", "interest_transactions.csv",
     "tax_deducted_transactions.csv", "sale_transactions.csv"}

Init ==
    /\ files \in Inputs
    /\ eac_df = None
    /\ individual_df = None
    /\ individual_sales_df = None
    /\ dividend_table = None
    /\ interest_table = None
    /\ tax_deducted_table = None
    /\ sale_table = None
    /\ pc = "load_individual"
    /\ err = ""
    /\ written = {}
    /\ runs = 0
    /\ call = None

\* fault variant: the exception swallowed, the pipeline goes on
Goto_Swallow(e, next) ==
    /\ pc' = next
    /\ err' = e

\* the step after a call that raised e ("" when it returned)
Goto(e, next) ==
    /\ pc' = IF e = "" THEN next ELSE "failed"
    /\ err' = e

IsNotReinvestShares(row) == row["Action"] # "Reinvest Shares"

\* init_data, the individual transactions
LoadIndividual ==
    /\ pc = "load_individual"
    /\ IF files.individual_transactions = None
       THEN /\ Goto("", "load_gains")
            /\ UNCHANGED individual_df
       ELSE LET r == fixup_stock_splits(
                         Filter(files.individual_transactions,
                                IsNotReinvestShares), "Date")
            IN  /\ individual_df' = r.df
                /\ Goto(r.err, "load_gains")
    /\ UNCHANGED <<files, runs, call, eac_df, individual_sales_df, tables,
                   written>>

\* init_data, the individual realized gains
LoadGains ==
    /\ pc = "load_gains"
    /\ IF files.individual_realized_gains = None
       THEN /\ Goto("", "load_eac")
            /\ UNCHANGED individual_sales_df
       ELSE LET r == fixup_stock_splits(files.individual_realized_gains,
                                        "Closed Date")
            IN  /\ individual_sales_df' = r.df
                /\ Goto(r.err, "load_eac")
    /\ UNCHANGED <<files, runs, call, eac_df, individual_df, tables, written>>

\* init_data, the EAC transactions: read_csv
LoadEac ==
    /\ pc = "load_eac"
    /\ IF files.eac_transactions = None
       THEN /\ Goto("", "populate_dividend")
            /\ UNCHANGED eac_df
       ELSE /\ eac_df' = files.eac_transactions
            /\ Goto("", "normalize_eac")
    /\ UNCHANGED <<files, runs, call, individual_df, individual_sales_df,
                   tables, written>>

\* init_data, the EAC transactions: normalize_eac_df
NormalizeEac ==
    /\ pc = "normalize_eac"
    /\ LET r == normalize_eac_df(eac_df)
       IN  /\ eac_df' = r.df
           /\ Goto(r.err, "fixup_eac")
    /\ UNCHANGED <<files, runs, call, individual_df, individual_sales_df,
                   tables, written>>

\* init_data, the EAC transactions: fixup_stock_splits
FixupEac ==
    /\ pc = "fixup_eac"
    /\ LET r == fixup_stock_splits(eac_df, "Date")
       IN  /\ eac_df' = r.df
           /\ Goto(r.err, "populate_dividend")
    /\ UNCHANGED <<files, runs, call, individual_df, individual_sales_df,
                   tables, written>>

PopulateDividend ==
    /\ pc = "populate_dividend"
    /\ LET r == populate_dividend_table(individual_df, eac_df)
       IN  /\ dividend_table' = r.df
           /\ Goto(r.err, "populate_interest")
    /\ UNCHANGED <<files, runs, call, sources, interest_table, tax_deducted_table,
                   sale_table, written>>

PopulateInterest ==
    /\ pc = "populate_interest"
    /\ LET r == populate_interest_table(individual_df)
       IN  /\ interest_table' = r.df
           /\ Goto(r.err, "populate_tax_deducted")
    /\ UNCHANGED <<files, runs, call, sources, dividend_table, tax_deducted_table,
                   sale_table, written>>

PopulateTaxDeducted ==
    /\ pc = "populate_tax_deducted"
    /\ LET r == populate_tax_deducted_table(individual_df, eac_df)
       IN  /\ tax_deducted_table' = r.df
           /\ Goto(r.err, "populate_sale")
    /\ UNCHANGED <<files, runs, call, sources, dividend_table, interest_table,
                   sale_table, written>>

PopulateSale ==
    /\ pc = "populate_sale"
    /\ LET r == populate_sale_table(eac_df, individual_sales_df, sale_table)
       IN  /\ sale_table' = r.df
           /\ Goto(r.err, "cleanup")
    /\ UNCHANGED <<files, runs, call, sources, dividend_table, interest_table,
                   tax_deducted_table, written>>

CleanupAllTables ==
    /\ pc = "cleanup"
    /\ LET d == cleanup_table(dividend_table, <<"Amount">>)
           i == cleanup_table(interest_table, <<"Amount">>)
           t == cleanup_table(tax_deducted_table, <<"Amount">>)
           s == cleanup_table(sale_table, <<"Amount", "Cost Basis">>)
           e == IF d.err # "" THEN d.err
                ELSE IF i.err # "" THEN i.err
                ELSE IF t.err # "" THEN t.err ELSE s.err
       IN  /\ dividend_table' = d.df
           /\ interest_table' = IF d.err = "" THEN i.df ELSE interest_table
           /\ tax_deducted_table' =
                  IF d.err = "" /\ i.err = "" THEN t.df ELSE tax_deducted_table
           /\ sale_table' =
                  IF d.err = "" /\ i.err = "" /\ t.err = "" THEN s.df
                  ELSE sale_table
           /\ Goto(e, "save")
    /\ UNCHANGED <<files, runs, call, sources, written>>

SaveReports ==
    /\ pc = "save"
    /\ written' = ReportFiles
    /\ Goto("", "done")
    /\ UNCHANGED <<files, runs, call, sources, tables>>

Next ==
    \/ LoadIndividual
    \/ LoadGains
    \/ LoadEac
    \/ NormalizeEac
    \/ FixupEac
    \/ PopulateDividend
    \/ PopulateInterest
    \/ PopulateTaxDeducted
    \/ PopulateSale
    \/ CleanupAllTables
    \/ SaveReports

Spec == Init /\ [][Next]_vars

(***************************************************************************)
(* process_all called again on the same processor, the source files        *)
(* unchanged: the attributes keep the values the earlier call left.        *)
(***************************************************************************)
ProcessAgain ==
    /\ pc = "done"
    /\ runs < MaxRuns
    /\ runs' = runs + 1
    /\ pc' = "load_individual"
    /\ err' = ""
    /\ UNCHANGED <<files, call, sources, tables, written>>

NextAgain == Next \/ ProcessAgain

SpecAgain == Init /\ [][NextAgain]_vars

(***************************************************************************)
(* convert_amount_to_numeric called on a table of its own, as the tests of *)
(* src/tests/test_data_processing.py do, once and then once more on the    *)
(* table it left.  call.given is the table handed to the first call.       *)
(***************************************************************************)
\* "$1,234.56", "(123.45)", "($1,234.56)", "500"
Usd1234_56 == Str(<<"$", "1", ",", "2", "3", "4", ".", "5", "6">>)

Paren123_45 == Str(<<"(", "1", "2", "3", ".", "4", "5", ")">>)

ParenUsd1234_56 ==
    Str(<<"(", "$", "1", ",", "2", "3", "4", ".", "5", "6", ")">>)

Plain500 == Str(<<"5", "0", "0">>)

\* the four texts above, a float, a negative float, an empty cell, the
\* texts "", "$", "12a" and "nan"
AmountCells ==
    {Usd1234_56, Paren123_45, ParenUsd1234_56, Plain500,
     Num(123456, 100), Num(-75, 1), Blank,
     Str(<<>>), Str(<<"$">>), Str(<<"1", "2", "a">>), Str(<<"n", "a", "n">>)}

AmountTables ==
    {DataFrame(<<"Amount">>, [k \in 1..Len(col) |-> [Amount |-> col[k]]]) :
        col \in SeqsUpTo(AmountCells, MaxCells)}

NoFiles ==
    [eac_transactions |-> None, individual_transactions |-> None,
     individual_realized_gains |-> None]

InitConvert ==
    /\ files = NoFiles
    /\ eac_df = None
    /\ individual_df = None
    /\ individual_sales_df = None
    /\ dividend_table = None
    /\ interest_table = None
    /\ tax_deducted_table = None
    /\ sale_table = None
    /\ pc = "convert"
    /\ err = ""
    /\ written = {}
    /\ runs = 0
    /\ call \in {[given |-> t, table |-> t, applied |-> 0, err |-> ""] :
                   t \in AmountTables}

Converted(r) ==
    [call EXCEPT !.table = r.df, !.applied = @ + 1, !.err = r.err]

ConvertAmount ==
    /\ pc = "convert"
    /\ call.applied < MaxCalls
    /\ call' = Converted(convert_amount_to_numeric(call.table, "Amount"))
    /\ UNCHANGED <<files, runs, sources, tables, pc, err, written>>

NextConvert == ConvertAmount

SpecConvert == InitConvert /\ [][NextConvert]_vars

(***************************************************************************)
(* fixup_stock_splits called on its own, as the unit tests call it: tables *)
(* with and without a Quantity column, and the empty DataFrame.            *)
(***************************************************************************)
MaxFixRows == 2

\* before the split, the day of the split, after it, and no date at all
FixupDates ==
    {DateStr(5, 1, 2024), DateStr(6, 7, 2024), DateStr(6, 15, 2024), DayFirst}

FixupQuantities == {Flt(20), NaN}

FixupRows ==
    {[Date |-> d, Symbol |-> "AAPL", Quantity |-> q] :
        d \in FixupDates, q \in FixupQuantities}

FixupLayouts ==
    {<<"Date", "Quantity">>, <<"Date", "Symbol">>,
     <<"Date", "Symbol", "Quantity">>}

FixupTables ==
    {DataFrame(<<>>, <<>>)}
    \cup
    {DataFrame(cols, [i \in 1..Len(rows) |->
                        [c \in ColSet(cols) |-> rows[i][c]]]) :
        cols \in FixupLayouts, rows \in SeqsUpTo(FixupRows, MaxFixRows)}

InitFixup ==
    /\ files = NoFiles
    /\ eac_df = None
    /\ individual_df = None
    /\ individual_sales_df = None
    /\ dividend_table = None
    /\ interest_table = None
    /\ tax_deducted_table = None
    /\ sale_table = None
    /\ pc = "fixup"
    /\ err = ""
    /\ written = {}
    /\ runs = 0
    /\ call \in {[given |-> t, table |-> t, applied |-> 0, err |-> ""] :
                   t \in FixupTables}

FixupStockSplits ==
    /\ pc = "fixup"
    /\ call.applied < MaxCalls
    /\ call' = Converted(fixup_stock_splits(call.table, "Date"))
    /\ UNCHANGED <<files, runs, sources, tables, pc, err, written>>

NextFixup == FixupStockSplits

SpecFixup == InitFixup /\ [][NextFixup]_vars

(***************************************************************************)
(* Vocabulary of the properties: the source files as the reference.        *)
(***************************************************************************)
RawEac == files.eac_transactions

RawIndividual == files.individual_transactions

RawGains == files.individual_realized_gains

EacPresent == RawEac # None

InitDataDone ==
    pc \in {"populate_dividend", "populate_interest", "populate_tax_deducted",
            "populate_sale", "cleanup", "save", "done"}

TaxBuilt == pc \in {"populate_sale", "cleanup", "save", "done"}

SaleBuilt == pc \in {"cleanup", "save", "done"}

RowsOf(df) == IF df = None THEN <<>> ELSE df.rows

\* (year, month, day) of a "MM/DD/YYYY" text
Ymd(x) == <<x.v[3], x.v[1], x.v[2]>>

AsTimestamp(x) == [t |-> "ts", v |-> Ymd(x)]

\* the value a currency text stands for, cell by cell
AmountValue(x) ==
    IF x.t = "num" THEN x
    ELSE IF x.t = "nan" THEN NaN
    ELSE LET s == Replace(Replace(x.v, "$", <<>>), ",", <<>>)
             body == Replace(Replace(s, "(", <<>>), ")", <<>>)
             val == ParseFloat(body).val
         IN  IF Contains(s, "(") THEN Neg(val) ELSE val

SplitFactor(ymd) ==
    IF DateLess(ymd, <<2024, 6, 7>>) THEN Flt(10) ELSE Flt(1)

IsRawBlank(i) == RawEac.rows[i]["Date"].t = "nan"

IsRawHeader(i) == RawEac.rows[i]["Action"] = "Sale"

\* the nearest "Sale" row before row i, 0 when there is none
HeaderOf(i) ==
    LET hs == {j \in 1..(i - 1) : IsRawHeader(j)}
    IN  IF hs = {} THEN 0 ELSE CHOOSE j \in hs : \A k \in hs : k <= j

\* the lot-detail rows: blank-date rows that follow a "Sale" row
LotIndices ==
    IF EacPresent
    THEN {i \in 1..Len(RawEac.rows) :
            IsRawBlank(i) /\ ~IsRawHeader(i) /\ HeaderOf(i) # 0}
    ELSE {}

LotsOf(h) == {i \in LotIndices : HeaderOf(i) = h}

Header(i) == RawEac.rows[HeaderOf(i)]

LotShares(i) == RawEac.rows[i]["Shares"]

RawLotFmv(i) ==
    AmountValue(IF RawEac.rows[i]["Type"] = "RS"
                THEN RawEac.rows[i]["VestFairMarketValue"]
                ELSE RawEac.rows[i]["PurchaseFairMarketValue"])

RawLotDate(i) ==
    IF RawEac.rows[i]["Type"] = "RS" THEN RawEac.rows[i]["VestDate"]
    ELSE RawEac.rows[i]["PurchaseDate"]

\* what the Sale table reports for lot i
ExpDate(i) == AsTimestamp(Header(i)["Date"])

ExpSymbol(i) == Header(i)["Symbol"]

ExpQuantity(i) == Mul(LotShares(i), SplitFactor(Ymd(Header(i)["Date"])))

ExpAmount(i) ==
    Mul(Div(AmountValue(Header(i)["Amount"]), Header(i)["Quantity"]),
        LotShares(i))

ExpCostBasis(i) ==
    Mul(Mul(RawLotFmv(i), LotShares(i)), SplitFactor(Ymd(Header(i)["Date"])))

Add(a, b) == Num(a.v[1] * b.v[2] + b.v[1] * a.v[2], a.v[2] * b.v[2])

RECURSIVE SumFmv(_)
SumFmv(S) ==
    IF S = {} THEN Flt(0)
    ELSE LET i == CHOOSE k \in S : TRUE
         IN  Add(RawLotFmv(i), SumFmv(S \ {i}))

\* the mean of the per-share values that are present, 0 when there is none
MeanFmv(h) ==
    LET S == {i \in LotsOf(h) : ~IsNaN(RawLotFmv(i))}
    IN  IF S = {} THEN Flt(0) ELSE Div(SumFmv(S), Flt(Cardinality(S)))

\* the earliest acquisition date among the lots of h, blank when none
EarliestDate(h) ==
    LET S == {RawLotDate(i) : i \in {k \in LotsOf(h) : RawLotDate(k).t = "str"}}
    IN  IF S = {} THEN Blank
        ELSE CHOOSE d \in S : \A e \in S : ~DateLess(Ymd(e), Ymd(d))

Count(x, s) == Cardinality({i \in 1..Len(s) : s[i] = x})

SameBag(s, t) ==
    /\ Len(s) = Len(t)
    /\ \A i \in 1..Len(s) : Count(s[i], s) = Count(s[i], t)

SaleRows == RowsOf(sale_table)

(***************************************************************************)
(* C1.  As claimed: the Cost Basis reported for the lots of a plan-account *)
(* sale is the mean of the lots' per-share values times the Quantity of    *)
(* the header row (10000.00 for a header of 100 and one RS lot of 50       *)
(* shares at 100.00).                                                      *)
(***************************************************************************)
C1_MeanTimesHeaderQuantity ==
    SaleBuilt =>
        \A i \in LotIndices : \E k \in 1..Len(SaleRows) :
            /\ SaleRows[k]["Date"] = ExpDate(i)
            /\ SaleRows[k]["Symbol"] = ExpSymbol(i)
            /\ SaleRows[k]["Cost Basis"] =
                   Mul(Mul(MeanFmv(HeaderOf(i)), Header(i)["Quantity"]),
                       SplitFactor(Ymd(Header(i)["Date"])))

(***************************************************************************)
(* C1, amended.  Each lot-detail row is reported with its own Cost Basis:  *)
(* the lot's per-share value (VestFairMarketValue for Type RS, else        *)
(* PurchaseFairMarketValue) times the lot's own Shares, times the split    *)
(* ratio when the sale is dated before the split.  A header of Quantity    *)
(* 100 and one RS lot of 50 shares at 100.00 is reported with 5000.00.     *)
(***************************************************************************)
C1_LotCostBasis ==
    SaleBuilt =>
        /\ \A i \in LotIndices : \E k \in 1..Len(SaleRows) :
              /\ SaleRows[k]["Date"] = ExpDate(i)
              /\ SaleRows[k]["Symbol"] = ExpSymbol(i)
              /\ SaleRows[k]["Quantity"] = ExpQuantity(i)
              /\ SaleRows[k]["Cost Basis"] = ExpCostBasis(i)
        /\ (EacPresent /\ RawEac.rows = <<SaleAfter, LotRS>>) =>
              \E k \in 1..Len(SaleRows) :
                  /\ SaleRows[k]["Symbol"] = "AAPL"
                  /\ SaleRows[k]["Quantity"] = Flt(50)
                  /\ SaleRows[k]["Cost Basis"] = Flt(5000)

C1_Witness ==
    /\ pc = "done"
    /\ EacPresent
    /\ RawEac.rows = <<SaleAfter, LotRS>>
    /\ \E k \in 1..Len(SaleRows) : SaleRows[k]["Cost Basis"] = Flt(5000)

(***************************************************************************)
(* Split adjustment of a loaded table against its source file.             *)
(***************************************************************************)
\* Quantity of the individual tables: the file's Quantity, times the ratio
\* in the rows dated before the split
AdjustedLike(df, raw, date_column) ==
    /\ Len(df.rows) = Len(raw.rows)
    /\ HasCol(raw, "Quantity") =>
          \A i \in 1..Len(df.rows) :
              df.rows[i]["Quantity"] =
                  Mul(raw.rows[i]["Quantity"],
                      SplitFactor(Ymd(raw.rows[i][date_column])))

IndividualAdjusted ==
    individual_df # None =>
        AdjustedLike(individual_df, Filter(RawIndividual, IsNotReinvestShares),
                     "Date")

GainsAdjusted ==
    individual_sales_df # None =>
        AdjustedLike(individual_sales_df, RawGains, "Closed Date")

\* the dated rows of the plan-account table
EacDatedAdjusted ==
    eac_df # None =>
        \A i \in 1..Len(eac_df.rows) :
            ~IsRawBlank(i) =>
                eac_df.rows[i]["Quantity"] =
                    Mul(RawEac.rows[i]["Quantity"],
                        SplitFactor(Ymd(RawEac.rows[i]["Date"])))

\* normalize_eac_df has turned a blank-date row into a "Lot Sale" row
Reconstructed(i) == eac_df.rows[i]["Date"].t = "date"

AnyBuilt ==
    \/ dividend_table # None
    \/ interest_table # None
    \/ tax_deducted_table # None
    \/ sale_table # None

(***************************************************************************)
(* C2.  As claimed: the split adjustment of a source table is complete     *)
(* before the lot-sale reconstructor or the classifier consumes a row of   *)
(* it.                                                                     *)
(***************************************************************************)
C2_SplitBeforeConsumption ==
    /\ AnyBuilt => IndividualAdjusted /\ GainsAdjusted /\ EacDatedAdjusted
    /\ (eac_df # None /\ \E i \in 1..Len(eac_df.rows) : Reconstructed(i))
          => EacDatedAdjusted

(***************************************************************************)
(* C2, amended.  The split adjustment of each source table is complete     *)
(* before the classifier consumes it.  For the plan-account table the      *)
(* lot-sale reconstructor runs before the split adjustment: once a header  *)
(* Quantity has been adjusted every lot row has already been rebuilt, and  *)
(* the per-share sale price of a lot is the header Amount divided by the   *)
(* header Quantity as it stands in the file.                               *)
(***************************************************************************)
C2_ReconstructThenSplit ==
    /\ AnyBuilt => IndividualAdjusted /\ GainsAdjusted /\ EacDatedAdjusted
    /\ eac_df # None =>
          /\ (\E j \in 1..Len(eac_df.rows) :
                 /\ IsRawHeader(j)
                 /\ eac_df.rows[j]["Quantity"] # RawEac.rows[j]["Quantity"])
                => \A i \in LotIndices : Reconstructed(i)
          /\ \A i \in LotIndices :
                Reconstructed(i) => eac_df.rows[i]["Amount"] = ExpAmount(i)

C2_Witness ==
    /\ pc = "fixup_eac"
    /\ \E i \in LotIndices :
          /\ Reconstructed(i)
          /\ DateLess(Ymd(Header(i)["Date"]), <<2024, 6, 7>>)
          /\ eac_df.rows[HeaderOf(i)]["Quantity"] = Header(i)["Quantity"]
          /\ eac_df.rows[i]["Amount"] = ExpAmount(i)
          /\ ~IsNaN(ExpAmount(i))

(***************************************************************************)
(* C3.  As claimed: a "Sale" header row with no lot-detail row after it is *)
(* still reported in the Sale table, with Cost Basis 0 and an empty        *)
(* PurchaseDate.                                                           *)
(***************************************************************************)
ZeroLotHeaders ==
    IF EacPresent
    THEN {h \in 1..Len(RawEac.rows) : IsRawHeader(h) /\ LotsOf(h) = {}}
    ELSE {}

C3_HeaderOnlySaleReported ==
    SaleBuilt =>
        \A h \in ZeroLotHeaders : \E k \in 1..Len(SaleRows) :
            /\ SaleRows[k]["Date"] = AsTimestamp(RawEac.rows[h]["Date"])
            /\ SaleRows[k]["Symbol"] = RawEac.rows[h]["Symbol"]
            /\ SaleRows[k]["Cost Basis"] = Flt(0)
            /\ SaleRows[k]["PurchaseDate"] = Blank

(***************************************************************************)
(* C3, amended.  A "Sale" header row with no lot-detail row after it is    *)
(* dropped: the Sale table holds one record per lot-detail row and one per *)
(* realized-gains row, and no record for a header row.                     *)
(***************************************************************************)
SameSale(h, g) ==
    /\ RawEac.rows[h]["Date"] = RawEac.rows[g]["Date"]
    /\ RawEac.rows[h]["Symbol"] = RawEac.rows[g]["Symbol"]

C3_HeaderOnlySaleDropped ==
    SaleBuilt =>
        /\ Len(SaleRows) = Cardinality(LotIndices) + Len(RowsOf(RawGains))
        /\ \A h \in ZeroLotHeaders :
              (\A i \in LotIndices : ~SameSale(h, HeaderOf(i))) =>
                  \A k \in 1..Len(SaleRows) :
                      ~ /\ SaleRows[k]["Date"] =
                               AsTimestamp(RawEac.rows[h]["Date"])
                        /\ SaleRows[k]["Symbol"] = RawEac.rows[h]["Symbol"]

C3_Witness ==
    /\ pc = "done"
    /\ ZeroLotHeaders # {}
    /\ LotIndices # {}
    /\ Len(SaleRows) = Cardinality(LotIndices)

(***************************************************************************)
(* C4.  As claimed: a blank-date row with no "Sale" row before it makes    *)
(* the reconstruction fail with the dedicated OrphanLotRow error.          *)
(***************************************************************************)
OrphanInput ==
    /\ EacPresent
    /\ \E i \in 1..Len(RawEac.rows) :
          IsRawBlank(i) /\ ~IsRawHeader(i) /\ HeaderOf(i) = 0

C4_OrphanLotRowError ==
    OrphanInput =>
        /\ ~InitDataDone
        /\ pc = "failed" => err = "OrphanLotRow"

(***************************************************************************)
(* C4, amended.  A blank-date row with no "Sale" row before it makes       *)
(* normalize_eac_df fail, with the UnboundLocalError of reading row_date   *)
(* before any "Sale" row has set it (there is no dedicated error); the     *)
(* run stops there: the plan-account table is never split-adjusted or      *)
(* classified, no Sale table is built and no report is written.            *)
(***************************************************************************)
C4_OrphanFails ==
    OrphanInput =>
        /\ ~InitDataDone
        /\ pc # "fixup_eac"
        /\ pc = "failed" => err = "UnboundLocalError"
        /\ sale_table = None
        /\ written = {}

C4_Witness ==
    /\ OrphanInput
    /\ IsRawBlank(1)
    /\ pc = "failed"
    /\ err = "UnboundLocalError"

(***************************************************************************)
(* C5.  As claimed: every lot of a plan-account sale is reported with the  *)
(* earliest acquisition date among the lots of that sale.                  *)
(***************************************************************************)
C5_EarliestPurchaseDate ==
    SaleBuilt =>
        \A i \in LotIndices : \E k \in 1..Len(SaleRows) :
            /\ SaleRows[k]["Date"] = ExpDate(i)
            /\ SaleRows[k]["Symbol"] = ExpSymbol(i)
            /\ SaleRows[k]["Quantity"] = ExpQuantity(i)
            /\ SaleRows[k]["Cost Basis"] = ExpCostBasis(i)
            /\ SaleRows[k]["PurchaseDate"] = EarliestDate(HeaderOf(i))

(***************************************************************************)
(* C5, amended.  Every lot of a plan-account sale is reported with its own *)
(* acquisition date: VestDate for Type RS, PurchaseDate otherwise.         *)
(***************************************************************************)
C5_OwnPurchaseDate ==
    SaleBuilt =>
        \A i \in LotIndices : \E k \in 1..Len(SaleRows) :
            /\ SaleRows[k]["Date"] = ExpDate(i)
            /\ SaleRows[k]["Symbol"] = ExpSymbol(i)
            /\ SaleRows[k]["Quantity"] = ExpQuantity(i)
            /\ SaleRows[k]["Cost Basis"] = ExpCostBasis(i)
            /\ SaleRows[k]["PurchaseDate"] = RawLotDate(i)

C5_Witness ==
    /\ pc = "done"
    /\ \E i, j \in LotIndices :
          /\ HeaderOf(i) = HeaderOf(j)
          /\ RawLotDate(i).t = "str"
          /\ RawLotDate(j).t = "str"
          /\ RawLotDate(i) # RawLotDate(j)
          /\ \E k \in 1..Len(SaleRows) :
                SaleRows[k]["PurchaseDate"] = RawLotDate(i)
          /\ \E k \in 1..Len(SaleRows) :
                SaleRows[k]["PurchaseDate"] = RawLotDate(j)

(***************************************************************************)
(* C6.  fixup_stock_splits with the split at 2024-06-07 and ratio 10: a    *)
(* row dated 06/06/2024 with Quantity 10 becomes 100; a row dated          *)
(* 06/07/2024 or 06/08/2024 keeps Quantity 10.                             *)
(***************************************************************************)
C6_SplitBoundary ==
    individual_sales_df # None =>
        \A i \in 1..Len(individual_sales_df.rows) :
            LET raw == RawGains.rows[i]
                q == individual_sales_df.rows[i]["Quantity"]
            IN  raw["Quantity"] = Flt(10) =>
                    /\ raw["Closed Date"] = DateStr(6, 6, 2024) => q = Flt(100)
                    /\ raw["Closed Date"] = DateStr(6, 7, 2024) => q = Flt(10)
                    /\ raw["Closed Date"] = DateStr(6, 8, 2024) => q = Flt(10)

C6_Witness ==
    /\ individual_sales_df # None
    /\ Len(individual_sales_df.rows) = 2
    /\ RawGains.rows[1]["Closed Date"] = DateStr(6, 6, 2024)
    /\ RawGains.rows[1]["Quantity"] = Flt(10)
    /\ individual_sales_df.rows[1]["Quantity"] = Flt(100)
    /\ RawGains.rows[2]["Closed Date"] = DateStr(6, 7, 2024)
    /\ RawGains.rows[2]["Quantity"] = Flt(10)
    /\ individual_sales_df.rows[2]["Quantity"] = Flt(10)

(***************************************************************************)
(* C7.  After init_data the Quantity of every row of every loaded table is *)
(* the Quantity of the file times the ratio when the row is dated before   *)
(* the split, and the Quantity of the file otherwise: adjusted once, never *)
(* twice and never left out.  A lot-detail row is dated by its "Sale" row, *)
(* and the Quantity adjusted is the one normalize_eac_df gave it, its      *)
(* Shares (in the files a lot row has no Quantity or one equal to Shares). *)
(***************************************************************************)
C7_AdjustedOnce ==
    InitDataDone =>
        /\ IndividualAdjusted
        /\ GainsAdjusted
        /\ EacDatedAdjusted
        /\ \A i \in LotIndices :
              /\ eac_df.rows[i]["Quantity"] = ExpQuantity(i)
              /\ ~IsNaN(RawEac.rows[i]["Quantity"]) =>
                    eac_df.rows[i]["Quantity"] =
                        Mul(RawEac.rows[i]["Quantity"],
                            SplitFactor(Ymd(Header(i)["Date"])))

C7_Witness ==
    /\ pc = "populate_dividend"
    /\ \E i \in LotIndices :
          /\ Header(i)["Quantity"] = Flt(20)
          /\ eac_df.rows[HeaderOf(i)]["Quantity"] = Flt(200)
          /\ RawEac.rows[i]["Quantity"] = Flt(30)
          /\ eac_df.rows[i]["Quantity"] = Flt(300)
    /\ \E j \in 1..Len(eac_df.rows) :
          /\ RawEac.rows[j]["Quantity"] = Flt(100)
          /\ eac_df.rows[j]["Quantity"] = Flt(100)

(***************************************************************************)
(* C8.  As claimed: building the Sale table does not fail when the         *)
(* plan-account file is present and has no lot-detail row, and the table   *)
(* then holds exactly the realized-gains rows.                             *)
(***************************************************************************)
NoBlankRows ==
    /\ EacPresent
    /\ \A i \in 1..Len(RawEac.rows) : ~IsRawBlank(i)

C8_NoLotRowsNoFailure ==
    NoBlankRows =>
        /\ pc # "failed"
        /\ SaleBuilt => Len(SaleRows) = Len(RowsOf(RawGains))

(***************************************************************************)
(* C9.  With the three source files absent the three source tables stay    *)
(* unset, no step of process_all raises, and the four category tables are  *)
(* built empty with their declared columns.                                *)
(***************************************************************************)
AllAbsent == RawEac = None /\ RawIndividual = None /\ RawGains = None

Built(p) ==
    pc \in CASE p = "dividend" ->
                   {"populate_interest", "populate_tax_deducted",
                    "populate_sale", "cleanup", "save", "done"}
             [] p = "interest" ->
                   {"populate_tax_deducted", "populate_sale", "cleanup",
                    "save", "done"}
             [] p = "tax_deducted" -> {"populate_sale", "cleanup", "save", "done"}
             [] OTHER -> {"cleanup", "save", "done"}

C9_NoFilesEmptyTables ==
    AllAbsent =>
        /\ eac_df = None /\ individual_df = None /\ individual_sales_df = None
        /\ pc # "failed"
        /\ Built("dividend") =>
              dividend_table =
                  [columns |-> <<"Date", "Action", "Symbol", "Amount">>,
                   rows |-> <<>>]
        /\ Built("interest") =>
              interest_table =
                  [columns |-> <<"Date", "Action", "Amount">>, rows |-> <<>>]
        /\ Built("tax_deducted") =>
              tax_deducted_table =
                  [columns |-> <<"Date", "Symbol", "Amount">>, rows |-> <<>>]
        /\ Built("sale") =>
              sale_table =
                  [columns |-> <<"Date", "Symbol", "Quantity", "Amount",
                                 "Cost Basis", "PurchaseDate">>,
                   rows |-> <<>>]

C9_Witness ==
    /\ AllAbsent
    /\ pc = "done"
    /\ written = ReportFiles
    /\ sale_table # None
    /\ Len(sale_table.rows) = 0

(***************************************************************************)
(* C10.  As claimed: the Tax-Deducted table holds the individual rows with *)
(* Action "NRA Tax Adj" and every plan-account row whose Action in the     *)
(* file is "Tax Withholding", whatever its Date holds, each once.          *)
(***************************************************************************)
NraRows ==
    LET df == Filter(RawIndividual, IsNotReinvestShares)
    IN  IF RawIndividual = None THEN <<>>
        ELSE SelectSeq(df.rows, LAMBDA r : r["Action"] = "NRA Tax Adj")

WithholdingRows(Keep(_)) ==
    IF RawEac = None THEN <<>>
    ELSE SelectSeq(RawEac.rows,
                   LAMBDA r : r["Action"] = "Tax Withholding" /\ Keep(r))

AnyDate(r) == TRUE

Dated(r) == r["Date"].t = "str"

C10_EveryWithholdingRow ==
    TaxBuilt =>
        Len(tax_deducted_table.rows) =
            Len(NraRows) + Len(WithholdingRows(AnyDate))

(***************************************************************************)
(* C10, amended.  The Tax-Deducted table holds exactly the individual rows *)
(* with Action "NRA Tax Adj" and the plan-account rows with Action "Tax    *)
(* Withholding" whose Date is not blank, each once.  A "Tax Withholding"   *)
(* row with a blank Date is relabelled "Lot Sale" by normalize_eac_df and  *)
(* is reported in the Sale table.                                          *)
(***************************************************************************)
TaxRecord(r) ==
    [Date |-> AsTimestamp(r["Date"]), Symbol |-> r["Symbol"],
     Amount |-> AmountValue(r["Amount"])]

ExpectedTaxRows ==
    LET e == NraRows \o WithholdingRows(Dated)
    IN  [i \in 1..Len(e) |-> TaxRecord(e[i])]

TaxRowsByValue ==
    [i \in 1..Len(tax_deducted_table.rows) |->
        [tax_deducted_table.rows[i] EXCEPT
            !["Amount"] = AmountValue(tax_deducted_table.rows[i]["Amount"])]]

C10_DatedWithholdingRows ==
    TaxBuilt =>
        /\ tax_deducted_table.columns = <<"Date", "Symbol", "Amount">>
        /\ SameBag(TaxRowsByValue, ExpectedTaxRows)
        /\ SaleBuilt =>
              Len(SaleRows) >= Len(WithholdingRows(AnyDate))
                               - Len(WithholdingRows(Dated))

C10_Witness ==
    /\ pc = "done"
    /\ Len(NraRows) = 1
    /\ Len(WithholdingRows(Dated)) = 1
    /\ Len(WithholdingRows(AnyDate)) = 2
    /\ Len(tax_deducted_table.rows) = 2

(***************************************************************************)
(* The Dividend table against the source files.                            *)
(***************************************************************************)
DividendBuilt ==
    pc \in {"populate_interest", "populate_tax_deducted", "populate_sale",
            "cleanup", "save", "done"}

IndividualRowsWith(actions) ==
    IF RawIndividual = None THEN <<>>
    ELSE SelectSeq(RawIndividual.rows, LAMBDA r : r["Action"] \in actions)

EacRowsWith(action) ==
    IF RawEac = None THEN <<>>
    ELSE SelectSeq(RawEac.rows, LAMBDA r : r["Action"] = action)

DividendRecord(r) ==
    [Date |-> AsTimestamp(r["Date"]), Action |-> r["Action"],
     Symbol |-> r["Symbol"], Amount |-> AmountValue(r["Amount"])]

ExpectedDividendRows ==
    LET e == IndividualRowsWith({"Reinvest Dividend", "Qual Div Reinvest"})
             \o EacRowsWith("Dividend")
    IN  [i \in 1..Len(e) |-> DividendRecord(e[i])]

DividendRowsByValue ==
    [i \in 1..Len(dividend_table.rows) |->
        [dividend_table.rows[i] EXCEPT
            !["Amount"] = AmountValue(dividend_table.rows[i]["Amount"])]]

(***************************************************************************)
(* C11.  The Dividend table holds exactly the individual rows with Action  *)
(* "Reinvest Dividend" or "Qual Div Reinvest" and the plan-account rows    *)
(* with Action "Dividend", each once, and no row with another Action.      *)
(***************************************************************************)
C11_DividendRows ==
    DividendBuilt =>
        /\ SameBag(DividendRowsByValue, ExpectedDividendRows)
        /\ \A k \in 1..Len(dividend_table.rows) :
              dividend_table.rows[k]["Action"] \in
                  {"Reinvest Dividend", "Qual Div Reinvest", "Dividend"}

C11_Witness ==
    /\ pc = "done"
    /\ Len(IndividualRowsWith({"Reinvest Dividend"})) = 1
    /\ Len(IndividualRowsWith({"Qual Div Reinvest"})) = 1
    /\ Len(IndividualRowsWith({"Credit Interest", "NRA Tax Adj", "Sell"})) = 0
    /\ Len(EacRowsWith("Dividend")) = 1
    /\ Len(EacRowsWith("Sale")) = 1
    /\ Len(dividend_table.rows) = 3

(***************************************************************************)
(* The Sale table against the source files: one record per lot-detail row  *)
(* of the plan-account file and one per row of the realized-gains file.    *)
(***************************************************************************)
LotSeq ==
    IF EacPresent
    THEN SelectSeq([i \in 1..Len(RawEac.rows) |-> i],
                   LAMBDA i : i \in LotIndices)
    ELSE <<>>

SaleRecord(date, symbol, quantity, amount, cb, purchased) ==
    [c \in ColSet(SaleColumns) |->
        CASE c = "Date" -> date
          [] c = "Symbol" -> symbol
          [] c = "Quantity" -> quantity
          [] c = "Amount" -> amount
          [] c = "Cost Basis" -> cb
          [] OTHER -> purchased]

LotRecord(i) ==
    SaleRecord(ExpDate(i), ExpSymbol(i), ExpQuantity(i), ExpAmount(i),
               ExpCostBasis(i), RawLotDate(i))

GainRecord(r) ==
    SaleRecord(AsTimestamp(r["Closed Date"]), r["Symbol"],
               Mul(r["Quantity"], SplitFactor(Ymd(r["Closed Date"]))),
               AmountValue(r["Proceeds"]), AmountValue(r["Cost Basis (CB)"]),
               r["Opened Date"])

ExpectedLotRecords == [k \in 1..Len(LotSeq) |-> LotRecord(LotSeq[k])]

ExpectedGainRecords ==
    [k \in 1..Len(RowsOf(RawGains)) |-> GainRecord(RawGains.rows[k])]

SaleRowsByValue ==
    [k \in 1..Len(SaleRows) |->
        [SaleRows[k] EXCEPT
            !["Amount"] = AmountValue(SaleRows[k]["Amount"]),
            !["Cost Basis"] = AmountValue(SaleRows[k]["Cost Basis"])]]

HeaderIndices ==
    IF EacPresent THEN {h \in 1..Len(RawEac.rows) : IsRawHeader(h)} ELSE {}

(***************************************************************************)
(* C12.  The plan-account part of the Sale table is one record per         *)
(* lot-detail row: every blank-date row that follows a "Sale" row, the     *)
(* lots of the last sale included, is relabelled "Lot Sale" and gives      *)
(* exactly one record; a "Sale" header row keeps its Action and gives no   *)
(* record.                                                                 *)
(***************************************************************************)
C12_OneRecordPerLot ==
    /\ (pc = "fixup_eac" \/ InitDataDone) =>
          /\ \A i \in LotIndices : eac_df.rows[i]["Action"] = "Lot Sale"
          /\ \A h \in HeaderIndices : eac_df.rows[h]["Action"] = "Sale"
    /\ SaleBuilt =>
          SameBag(SaleRowsByValue, ExpectedLotRecords \o ExpectedGainRecords)

C12_Witness ==
    /\ pc = "done"
    /\ EacPresent
    /\ Len(RawEac.rows) = 3
    /\ IsRawHeader(1) /\ IsRawHeader(2) /\ 3 \in LotIndices
    /\ Len(SaleRows) = 1 + Len(RowsOf(RawGains))

(***************************************************************************)
(* The rebuilt lot rows of the plan-account table.                         *)
(***************************************************************************)
AsDate(x) == [t |-> "date", v |-> Ymd(x)]

\* lot row i carries the Date and Symbol of its "Sale" row, the Quantity q
\* and the price per share of that "Sale" row times its Shares
LotCarries(i, q) ==
    /\ eac_df.rows[i]["Date"] = AsDate(Header(i)["Date"])
    /\ eac_df.rows[i]["Symbol"] = ExpSymbol(i)
    /\ eac_df.rows[i]["Quantity"] = q
    /\ eac_df.rows[i]["Amount"] = ExpAmount(i)

LotReported(i, q) ==
    \E k \in 1..Len(SaleRows) :
        /\ SaleRows[k]["Date"] = ExpDate(i)
        /\ SaleRows[k]["Symbol"] = ExpSymbol(i)
        /\ SaleRows[k]["Quantity"] = q
        /\ SaleRows[k]["Amount"] = ExpAmount(i)

(***************************************************************************)
(* C13.  As claimed: the record of a lot-detail row carries the Date and   *)
(* Symbol of the nearest "Sale" row before it, a Quantity equal to the     *)
(* lot's Shares, and an Amount equal to that row's Amount divided by its   *)
(* Quantity, times the lot's Shares.                                       *)
(***************************************************************************)
C13_NearestHeaderShares ==
    /\ InitDataDone => \A i \in LotIndices : LotCarries(i, LotShares(i))
    /\ SaleBuilt => \A i \in LotIndices : LotReported(i, LotShares(i))

(***************************************************************************)
(* C13, amended.  The record of a lot-detail row carries the Date and      *)
(* Symbol of the nearest "Sale" row before it, an Amount equal to that     *)
(* row's Amount divided by its Quantity, times the lot's Shares, and a     *)
(* Quantity equal to the lot's Shares, times the split ratio when that     *)
(* "Sale" row is dated before the split.                                   *)
(***************************************************************************)
C13_NearestHeader ==
    /\ InitDataDone => \A i \in LotIndices : LotCarries(i, ExpQuantity(i))
    /\ SaleBuilt => \A i \in LotIndices : LotReported(i, ExpQuantity(i))

C13_Witness ==
    /\ pc = "done"
    /\ EacPresent
    /\ RawEac.rows = <<SaleAfter, SaleBefore, LotESPP>>
    /\ \E k \in 1..Len(SaleRows) :
          /\ SaleRows[k]["Symbol"] = "MSFT"
          /\ SaleRows[k]["Quantity"] = Flt(300)
          /\ SaleRows[k]["Amount"] = Flt(7500)

(***************************************************************************)
(* The four tables built from the loaded source tables alone, with no      *)
(* earlier table at hand.                                                  *)
(***************************************************************************)
FreshDividend ==
    cleanup_table(populate_dividend_table(individual_df, eac_df).df,
                  <<"Amount">>).df

FreshInterest ==
    cleanup_table(populate_interest_table(individual_df).df, <<"Amount">>).df

FreshTaxDeducted ==
    cleanup_table(populate_tax_deducted_table(individual_df, eac_df).df,
                  <<"Amount">>).df

FreshSale ==
    cleanup_table(populate_sale_table(eac_df, individual_sales_df, None).df,
                  <<"Amount", "Cost Basis">>).df

(***************************************************************************)
(* C14.  As claimed: every category table is built fresh on each run; a    *)
(* second process_all on the same processor with the same source files     *)
(* ends with the four tables of the first, no row of the earlier run       *)
(* carried over or duplicated.                                             *)
(***************************************************************************)
C14_BuiltFreshEachRun ==
    pc = "done" =>
        /\ dividend_table = FreshDividend
        /\ interest_table = FreshInterest
        /\ tax_deducted_table = FreshTaxDeducted
        /\ sale_table = FreshSale

(***************************************************************************)
(* The report files against the state of the four tables.                  *)
(***************************************************************************)
NumericColumn(table, c) ==
    \A k \in 1..Len(table.rows) : table.rows[k][c].t = "num"

AllBuiltAndNormalized ==
    /\ dividend_table # None /\ NumericColumn(dividend_table, "Amount")
    /\ interest_table # None /\ NumericColumn(interest_table, "Amount")
    /\ tax_deducted_table # None /\ NumericColumn(tax_deducted_table, "Amount")
    /\ sale_table # None /\ NumericColumn(sale_table, "Amount")
    /\ NumericColumn(sale_table, "Cost Basis")

(***************************************************************************)
(* C15.  No report file is written before the four tables are built and    *)
(* their amounts converted: a run that fails in loading, split adjustment, *)
(* reconstruction, classification or conversion ends with no file written, *)
(* and once files are written they are the four of them.                   *)
(***************************************************************************)
C15_NoPartialOutput ==
    /\ (pc # "done" \/ err # "") => written = {}
    /\ written # {} => (written = ReportFiles /\ AllBuiltAndNormalized)

C15_Witness ==
    /\ pc = "failed"
    /\ err = "ValueError"
    /\ dividend_table # None
    /\ interest_table # None /\ ~NumericColumn(interest_table, "Amount")
    /\ tax_deducted_table # None
    /\ sale_table # None
    /\ written = {}

(***************************************************************************)
(* Order of the category tables.                                           *)
(***************************************************************************)
InterestBuilt ==
    pc \in {"populate_tax_deducted", "populate_sale", "cleanup", "save",
            "done"}

\* Date[k] <= Date[k + 1] for all adjacent rows, on Timestamps
SortedByDate(table) ==
    \A k \in 1..(Len(table.rows) - 1) :
        /\ table.rows[k]["Date"].t = "ts"
        /\ table.rows[k + 1]["Date"].t = "ts"
        /\ ~DateLess(table.rows[k + 1]["Date"].v, table.rows[k]["Date"].v)

(***************************************************************************)
(* C16.  After its populate_* operation every category table is sorted     *)
(* ascending by Date, whichever sources gave rows and in whatever order.   *)
(***************************************************************************)
C16_SortedByDate ==
    /\ DividendBuilt => SortedByDate(dividend_table)
    /\ InterestBuilt => SortedByDate(interest_table)
    /\ TaxBuilt => SortedByDate(tax_deducted_table)
    /\ SaleBuilt => SortedByDate(sale_table)

C16_Witness ==
    /\ pc = "done"
    /\ LotIndices # {}
    /\ RawGains = SampleGains
    /\ Len(SaleRows) = 3
    /\ SaleRows[1]["Symbol"] = "MSFT"
    /\ SaleRows[2]["Date"] = ExpDate(CHOOSE i \in LotIndices : TRUE)
    /\ DateLess(SaleRows[1]["Date"].v, SaleRows[2]["Date"].v)
    /\ DateLess(SaleRows[2]["Date"].v, SaleRows[3]["Date"].v)

(***************************************************************************)
(* Columns of the category tables.                                         *)
(***************************************************************************)
HasExactly(table, cols) ==
    /\ table.columns = cols
    /\ \A k \in 1..Len(table.rows) : DOMAIN table.rows[k] = ColSet(cols)

(***************************************************************************)
(* C17.  Every category table has its declared columns in the declared     *)
(* order, whichever sources gave rows, before and after                    *)
(* cleanup_all_tables.                                                     *)
(***************************************************************************)
C17_DeclaredColumns ==
    /\ DividendBuilt =>
          HasExactly(dividend_table, <<"Date", "Action", "Symbol", "Amount">>)
    /\ InterestBuilt =>
          HasExactly(interest_table, <<"Date", "Action", "Amount">>)
    /\ TaxBuilt =>
          HasExactly(tax_deducted_table, <<"Date", "Symbol", "Amount">>)
    /\ SaleBuilt =>
          HasExactly(sale_table, <<"Date", "Symbol", "Quantity", "Amount",
                                   "Cost Basis", "PurchaseDate">>)

C17_Witness ==
    /\ pc = "done"
    /\ RawEac = SampleEac
    /\ RawIndividual = SampleIndividual
    /\ Len(RowsOf(RawGains)) = 2
    /\ Len(dividend_table.rows) = 2
    /\ Len(interest_table.rows) = 1
    /\ Len(tax_deducted_table.rows) = 1
    /\ Len(sale_table.rows) = 4

(***************************************************************************)
(* convert_amount_to_numeric against the amounts the texts stand for.      *)
(***************************************************************************)
GivenCell(k) == call.given.rows[k]["Amount"]

ResultCell(k) == call.table.rows[k]["Amount"]

Cells == 1..Len(call.given.rows)

FormattedAmounts == {Usd1234_56, Paren123_45, ParenUsd1234_56, Plain500}

\* 1234.56, -123.45, -1234.56, 500.0
SignedValue(x) ==
    CASE x = Usd1234_56 -> Num(123456, 100)
      [] x = Paren123_45 -> Num(-12345, 100)
      [] x = ParenUsd1234_56 -> Num(-123456, 100)
      [] x = Plain500 -> Num(500, 1)

\* a cell that holds a float already, or is empty
IsNumericCell(x) == x.t \in {"num", "nan"}

(***************************************************************************)
(* C18.  convert_amount_to_numeric gives every formatted amount its signed *)
(* value: "$1,234.56" gives 1234.56, "(123.45)" gives -123.45,             *)
(* "($1,234.56)" gives -1234.56 and "500" gives 500.0, whatever the other  *)
(* amounts of the column are.                                              *)
(***************************************************************************)
C18_SignedValues ==
    (/\ call.applied >= 1
     /\ \A k \in Cells :
           GivenCell(k) \in FormattedAmounts \/ IsNumericCell(GivenCell(k)))
    => /\ call.err = ""
       /\ \A k \in Cells :
             GivenCell(k) \in FormattedAmounts =>
                 ResultCell(k) = SignedValue(GivenCell(k))

C18_Witness ==
    /\ call.applied = 1
    /\ call.err = ""
    /\ Len(call.given.rows) = 2
    /\ GivenCell(1) = ParenUsd1234_56
    /\ GivenCell(2) = Plain500
    /\ ResultCell(1) = Num(-123456, 100)
    /\ ResultCell(2) = Num(500, 1)

(***************************************************************************)
(* C19.  convert_amount_to_numeric is idempotent: a column of floats comes *)
(* out as it went in, a float among currency texts keeps its value, and    *)
(* the second call leaves the column the first call gave.                  *)
(***************************************************************************)
C19_Idempotent ==
    /\ (call.applied >= 1 /\ \A k \in Cells : GivenCell(k).t = "num") =>
          (call.err = "" /\ call.table = call.given)
    /\ (call.applied >= 1 /\ call.err = "") =>
          \A k \in Cells :
              GivenCell(k).t = "num" => ResultCell(k) = GivenCell(k)
    /\ call.applied = 2 =>
          /\ call.table = convert_amount_to_numeric(call.given, "Amount").df
          /\ call.err = convert_amount_to_numeric(call.given, "Amount").err

C19_Witness ==
    /\ call.applied = 2
    /\ call.err = ""
    /\ Len(call.given.rows) = 2
    /\ GivenCell(1) = Num(123456, 100)
    /\ GivenCell(2) = ParenUsd1234_56
    /\ ResultCell(1) = Num(123456, 100)
    /\ ResultCell(2) = Num(-123456, 100)

(***************************************************************************)
(* What is left of a cell once '$', ',' and the parentheses are stripped.  *)
(***************************************************************************)
Residual(x) ==
    Strip(Replace(Replace(Replace(Replace(AsStr(x), "$", <<>>), ",", <<>>),
                          "(", <<>>), ")", <<>>))

Unsigned(s) == IF s # <<>> /\ Head(s) \in {"-", "+"} THEN Tail(s) ELSE s

\* [sign] digits [. digits], a digit at least
IsDecimal(s) ==
    LET u == Unsigned(s)
        dots == {i \in 1..Len(u) : u[i] = "."}
    IN  /\ Cardinality(dots) <= 1
        /\ \A i \in 1..Len(u) : IsDigit(u[i]) \/ u[i] = "."
        /\ \E i \in 1..Len(u) : IsDigit(u[i])

\* the texts other than decimals that float() reads: nan and inf
IsNanOrInf(s) == Unsigned(s) \in {<<"n", "a", "n">>, <<"i", "n", "f">>}

NoCellConverted ==
    \A k \in Cells : GivenCell(k).t = "str" => ResultCell(k).t = "str"

RejectedTextFails ==
    /\ (/\ call.applied >= 1
        /\ \E k \in Cells :
              /\ ~IsDecimal(Residual(GivenCell(k)))
              /\ ~IsNanOrInf(Residual(GivenCell(k))))
       => (call.err = "ValueError" /\ NoCellConverted)
    /\ (call.applied >= 1 /\ call.err = "") =>
          \A k \in Cells :
              Residual(GivenCell(k)) = <<"n", "a", "n">> => IsNaN(ResultCell(k))

RejectedTextWitness ==
    /\ call.applied = 1
    /\ call.err = "ValueError"
    /\ Len(call.given.rows) = 2
    /\ GivenCell(1) = Usd1234_56
    /\ GivenCell(2) = Str(<<"$">>)
    /\ ResultCell(1).t = "str"
    /\ ResultCell(2) = Str(<<>>)

(***************************************************************************)
(* Dates that do not read as MM/DD/YYYY.                                   *)
(***************************************************************************)
MatchesFormat(x) ==
    /\ x.t = "str"
    /\ x.v[1] \in 1..12
    /\ x.v[2] \in 1..DaysIn(x.v[1], x.v[3])

\* the individual transactions as fixup_stock_splits receives them
GivenIndividual == Filter(RawIndividual, IsNotReinvestShares)

BadDateRows(df, date_column) ==
    {i \in 1..Len(df.rows) : ~MatchesFormat(df.rows[i][date_column])}

IndividualHasBadDate ==
    /\ RawIndividual # None
    /\ BadDateRows(GivenIndividual, "Date") # {}

(***************************************************************************)
(* C21.  When a row of the individual transactions carries a date that     *)
(* does not read as MM/DD/YYYY, fixup_stock_splits raises ValueError and   *)
(* init_data stops there: the bad row is not skipped, no row from the bad  *)
(* one on is adjusted, the other files are not loaded, no report table is  *)
(* built from the table and nothing is written.                            *)
(***************************************************************************)
C21_InvalidDateFatal ==
    (IndividualHasBadDate /\ pc # "load_individual") =>
        /\ pc = "failed"
        /\ err = "ValueError"
        /\ ~AnyBuilt
        /\ written = {}
        /\ eac_df = None
        /\ individual_sales_df = None
        /\ \A i \in 1..Len(GivenIndividual.rows) :
              (\E b \in BadDateRows(GivenIndividual, "Date") : b <= i) =>
                  individual_df.rows[i] = GivenIndividual.rows[i]

\* a day-first date, then a sale dated before the split: Quantity 5 stays 5
C21_Witness ==
    /\ pc = "failed"
    /\ err = "ValueError"
    /\ RawIndividual # None
    /\ Len(RawIndividual.rows) = 2
    /\ RawIndividual.rows[1]["Date"] = DayFirst
    /\ RawIndividual.rows[2]["Date"] = DateStr(5, 20, 2024)
    /\ RawIndividual.rows[2]["Quantity"] = Flt(5)
    /\ individual_df.rows[2]["Quantity"] = Flt(5)
    /\ ~AnyBuilt

(***************************************************************************)
(* One call of fixup_stock_splits against the table it was given.          *)
(***************************************************************************)
GivenRow(i) == call.given.rows[i]

ResultRow(i) == call.table.rows[i]

FixupIndices == 1..Len(call.given.rows)

DatedBeforeSplit(x) == MatchesFormat(x) /\ DateLess(Ymd(x), SplitDate)

AllDatesRead == BadDateRows(call.given, "Date") = {}

(***************************************************************************)
(* C22.  fixup_stock_splits changes nothing but the Quantity of rows dated *)
(* strictly before the split: the columns and the number of rows stay,     *)
(* every cell outside Quantity stays, the Quantity of a row not dated      *)
(* before the split stays, and a null Quantity stays null.  A table        *)
(* without a Quantity column, or without rows, comes back as it was given, *)
(* and with no error when its dates read as MM/DD/YYYY.                    *)
(***************************************************************************)
C22_OnlyQuantityBeforeSplit ==
    call.applied = 1 =>
        /\ call.table.columns = call.given.columns
        /\ Len(call.table.rows) = Len(call.given.rows)
        /\ \A i \in FixupIndices :
              \A c \in ColSet(call.given.columns) \ {"Quantity"} :
                  ResultRow(i)[c] = GivenRow(i)[c]
        /\ HasCol(call.given, "Quantity") =>
              \A i \in FixupIndices :
                  /\ ~DatedBeforeSplit(GivenRow(i)["Date"]) =>
                        ResultRow(i)["Quantity"] = GivenRow(i)["Quantity"]
                  /\ IsNaN(GivenRow(i)["Quantity"]) =>
                        IsNaN(ResultRow(i)["Quantity"])
        /\ (~HasCol(call.given, "Quantity") \/ call.given.rows = <<>>) =>
              /\ call.table = call.given
              /\ AllDatesRead => call.err = ""

\* the table of the unit test, both rows dated before the split: the null
\* Quantity stays null and 20 becomes 200
C22_Witness ==
    /\ call.applied = 1
    /\ call.err = ""
    /\ call.given.columns = <<"Date", "Quantity">>
    /\ Len(call.given.rows) = 2
    /\ GivenRow(1) = [Date |-> DateStr(5, 1, 2024), Quantity |-> NaN]
    /\ GivenRow(2) = [Date |-> DateStr(5, 1, 2024), Quantity |-> Flt(20)]
    /\ IsNaN(ResultRow(1)["Quantity"])
    /\ ResultRow(2)["Quantity"] = Flt(200)

(***************************************************************************)
(* Scaling of a lot record by the split.                                   *)
(***************************************************************************)
HeaderBeforeSplit(i) == DateLess(Ymd(Header(i)["Date"]), SplitDate)

LotBeforeSplit(i) ==
    RawLotDate(i).t = "str" /\ DateLess(Ymd(RawLotDate(i)), SplitDate)

Scaled(x, yes) == IF yes THEN Mul(x, Flt(SplitRatio)) ELSE x

(***************************************************************************)
(* C23.  The Cost Basis of a plan-account sale record is the lot's value   *)
(* times its Shares, times the split ratio exactly when the "Sale" header  *)
(* of the lot is dated strictly before the split, whatever the lot's own   *)
(* vest or purchase date; the Quantity of the record is the lot's Shares   *)
(* scaled on the same condition, so the two are scaled together or not at  *)
(* all.                                                                    *)
(***************************************************************************)
C23_ScaledTogether ==
    SaleBuilt =>
        \A i \in LotIndices : \E k \in 1..Len(SaleRows) :
            /\ SaleRows[k]["Date"] = ExpDate(i)
            /\ SaleRows[k]["Symbol"] = ExpSymbol(i)
            /\ SaleRows[k]["PurchaseDate"] = RawLotDate(i)
            /\ SaleRows[k]["Cost Basis"] =
                   Scaled(Mul(RawLotFmv(i), LotShares(i)),
                          HeaderBeforeSplit(i))
            /\ SaleRows[k]["Quantity"] =
                   Scaled(LotShares(i), HeaderBeforeSplit(i))

\* two lots acquired before the split, sold after it: neither column scaled
C23_Witness ==
    /\ pc = "done"
    /\ EacPresent
    /\ RawEac.rows = <<SaleAfter, LotRS, LotESPP>>
    /\ LotBeforeSplit(2)
    /\ LotBeforeSplit(3)
    /\ ~HeaderBeforeSplit(2)
    /\ \E k \in 1..Len(SaleRows) :
          /\ SaleRows[k]["PurchaseDate"] = DateStr(1, 1, 2024)
          /\ SaleRows[k]["Quantity"] = Flt(50)
          /\ SaleRows[k]["Cost Basis"] = Flt(5000)
    /\ \E k \in 1..Len(SaleRows) :
          /\ SaleRows[k]["PurchaseDate"] = DateStr(3, 1, 2023)
          /\ SaleRows[k]["Quantity"] = Flt(30)
          /\ SaleRows[k]["Cost Basis"] = Flt(2400)

(***************************************************************************)
(* The lot rows of the plan-account table once normalize_eac_df has run.   *)
(***************************************************************************)
Normalized == eac_df # None /\ (pc = "fixup_eac" \/ InitDataDone)

IsRS(i) == RawEac.rows[i]["Type"] = "RS"

VestValue(i) == AmountValue(RawEac.rows[i]["VestFairMarketValue"])

PurchaseValue(i) == AmountValue(RawEac.rows[i]["PurchaseFairMarketValue"])

\* the Cost Basis of lot row i when its per-share value is x
CostBasisFrom(i, x) == Scaled(Mul(x, LotShares(i)), HeaderBeforeSplit(i))

(***************************************************************************)
(* C24.  For every lot-detail row the per-share value and the acquisition  *)
(* date are selected by the lot's Type: a lot of Type "RS" has its Cost    *)
(* Basis from VestFairMarketValue and its PurchaseDate from VestDate, any  *)
(* other lot has them from PurchaseFairMarketValue and PurchaseDate; a row *)
(* never has the one from the vest columns and the other from the purchase *)
(* columns.                                                                *)
(***************************************************************************)
C24_SelectedByType ==
    Normalized =>
        \A i \in LotIndices :
            LET row == eac_df.rows[i]
            IN  /\ IsRS(i) =>
                      /\ row["Cost Basis"] = CostBasisFrom(i, VestValue(i))
                      /\ row["PurchaseDate"] = RawEac.rows[i]["VestDate"]
                /\ ~IsRS(i) =>
                      /\ row["Cost Basis"] = CostBasisFrom(i, PurchaseValue(i))
                      /\ row["PurchaseDate"] = RawEac.rows[i]["PurchaseDate"]

\* an RS lot whose vest and purchase columns differ, next to an ESPP lot
C24_Witness ==
    /\ pc = "populate_dividend"
    /\ EacPresent
    /\ RawEac.rows = <<SaleAfter, LotESPP, LotRS>>
    /\ VestValue(3) # PurchaseValue(3)
    /\ RawEac.rows[3]["VestDate"] # RawEac.rows[3]["PurchaseDate"]
    /\ eac_df.rows[3]["Cost Basis"] = Flt(5000)
    /\ eac_df.rows[3]["PurchaseDate"] = DateStr(1, 1, 2024)
    /\ eac_df.rows[2]["Cost Basis"] = Flt(2400)
    /\ eac_df.rows[2]["PurchaseDate"] = DateStr(3, 1, 2023)

(***************************************************************************)
(* Dated rows of another Action between a "Sale" row and a blank-date row. *)
(***************************************************************************)
DatedBetween(i) ==
    {j \in (HeaderOf(i) + 1)..(i - 1) : ~IsRawBlank(j) /\ ~IsRawHeader(j)}

OrphanRows ==
    IF EacPresent
    THEN {i \in 1..Len(RawEac.rows) :
            IsRawBlank(i) /\ ~IsRawHeader(i) /\ HeaderOf(i) = 0}
    ELSE {}

(***************************************************************************)
(* C25.  Once a "Sale" row has been read, a dated row of another Action    *)
(* does not close the open sale.  Every later blank-date row, whatever its *)
(* own Action (a row of Action "Sale" is a header, not such a row), is     *)
(* relabelled "Lot Sale" and takes Date and Symbol from the most recent    *)
(* "Sale" row and its Amount from that row's price per unit, until the     *)
(* next "Sale" row replaces them; reading row_date only fails for a        *)
(* blank-date row that no "Sale" row precedes.                             *)
(***************************************************************************)
C25_SaleStaysOpen ==
    /\ Normalized =>
          \A i \in LotIndices :
              /\ eac_df.rows[i]["Action"] = "Lot Sale"
              /\ eac_df.rows[i]["Date"] = AsDate(Header(i)["Date"])
              /\ eac_df.rows[i]["Symbol"] = Header(i)["Symbol"]
              /\ eac_df.rows[i]["Amount"] = ExpAmount(i)
    /\ (pc = "failed" /\ err = "UnboundLocalError") => OrphanRows # {}

\* "Sale" of 20 for 5,000.00, a Dividend row, then a lot of 30 shares
C25_Witness ==
    /\ Normalized
    /\ RawEac.rows = <<SaleBefore, EacDividend, LotESPP>>
    /\ DatedBetween(3) = {2}
    /\ eac_df.rows[3]["Action"] = "Lot Sale"
    /\ eac_df.rows[3]["Date"] = PyDate(2024, 6, 6)
    /\ eac_df.rows[3]["Symbol"] = "MSFT"
    /\ eac_df.rows[3]["Amount"] = Flt(7500)
    /\ eac_df.rows[2]["Action"] = "Dividend"

====
